---- MODULE Spec2Model ----
(***************************************************************************)
(* Coordination fabric of the vector-database control plane:               *)
(*   - IndexCoord build scheduler   (src/unnamed/part_000, package         *)
(*     indexcoord)                                                         *)
(*   - DataCoord segment meta       (src/internal/datacoord/meta.go,       *)
(*     server.go)                                                          *)
(*   - DataCoord channel cluster    (src/unnamed/part_005)                 *)
(*   - RootCoord DDL replay, ID allocation (src/unnamed/part_001)          *)
(* Each component has its own next-state relation and specification; the   *)
(* variables of the other components stay at their initial value.          *)
(***************************************************************************)
EXTENDS Integers, Sequences, FiniteSets, TLC

VARIABLES
  \* ---- IndexCoord (part_000) ----
  indexMeta,    \* metaTable: build-id -> build-task row
  assignChan,   \* IndexCoord.assignChan: queue of batches of build-ids
  nodeClients,  \* IndexCoord.nodeClients: registered worker -> priority
  nodeTasks,    \* IndexCoord.nodeTasks: worker -> set of build-ids
  eventChan,    \* IndexCoord.eventChan: session events of index workers
  watchChan,    \* metaTable.client.WatchWithPrefix("indexes"): Put events
  nextBuildID,  \* idAllocator: next build-id to hand out
  pc,           \* BuildIndex call of each caller: idle / enqueued / added
  callReq,      \* request of the call in progress
  callID,       \* build-id of the IndexAddTask of the call in progress
  ret,          \* BuildIndexResponse of the call that returned last
  aPc,          \* assignmentTasksLoop position
  aBatch,       \* assignmentTasksLoop: build-ids of the batch still to handle
  aNode,        \* assignmentTasksLoop: nodeID returned by PeekClient
  wPc,          \* watchNodeLoop position
  wNode,        \* watchNodeLoop: serverID of the event being handled
  wTasks,       \* watchNodeLoop: indexBuildIDs read at line 703
  alive,        \* index workers whose session exists
  nodeJob,      \* index worker -> build-ids of the CreateIndex requests it accepted
  \* ---- DataCoord meta (meta.go, server.go) ----
  segments,     \* meta.segments: segment id -> in-memory SegmentInfo
  kvSegs,       \* meta.client: segment id -> SegmentInfo saved under segmentPrefix
  kvBinlogs,    \* meta.client: segment ids whose binlog paths are saved
  flushCh,      \* Server.flushCh: segment ids whose flush is done
  nextSegID,    \* next segment id the allocator hands out
  fPc,          \* startFlushLoop position
  fSeg,         \* startFlushLoop: segmentID received from flushCh
  \* ---- DataCoord Cluster (part_005) ----
  clusterNodes, \* Cluster.nodes: data node -> NodeInfo (channels, watch states)
  chanBuffer,   \* Cluster.chanBuffer: channels bound to no node
  kvNodes,      \* Cluster.kv: NodeInfo saved under clusterPrefix
  kvBuffer,     \* Cluster.kv: channels saved under clusterBuffer
  cEventCh,     \* Cluster.eventCh
  dnEventCh,    \* NodeInfo event channel of each data node
  online,       \* data nodes whose session exists
  acked,        \* (node, channel): WatchDmChannels acknowledged since bound
  \* ---- RootCoord DDL replay (part_001) ----
  collections,  \* MetaTable: names of the collections (durable)
  partitions,   \* MetaTable: (collection, partition) pairs (durable)
  ddMsgSent,    \* KV key DDMsgSendPrefix: "absent", "false" or "true"
  ddOp,         \* KV key DDOperationPrefix: the recorded DdOperation
  pubDone,      \* the recorded DdOperation was published since it was
                \* committed or, after a restart, since the restart
  rcPc,         \* Core: stopped, position in Start, or started
  replay,       \* outcome of reSendDdMsg in the current run
  stateCode,    \* Core.stateCode
  tPc,          \* DDL task in progress: idle / publish / flag
  \* ---- RootCoord ID allocator ----
  gidHigh,      \* KV: the persisted high-water mark of the ID allocator
  gidCur,       \* in memory: the next identifier to serve
  gidEnd,       \* in memory: the end of the lease [gidCur, gidEnd)
  issued,       \* every identifier ever returned by AllocID
  issuedProc,   \* the identifiers returned by the running process
  allocRet,     \* the last AllocIDResponse
  \* ---- RootCoord index trigger of flushed segments ----
  segIndexRecs, \* MetaTable: SegmentIndexInfo records per segment and field
  buildCalls,   \* BuildIndex requests sent to IndexCoord per segment, field
  \* ---- lifecycle of the coordinators ----
  isServing,    \* DataCoord Server.isServing
  dcCancelled,  \* DataCoord serverLoopCtx is cancelled
  activeCh,     \* DataCoord Server.activeCh: open / closed
  dcLoop,       \* position of each of the five DataCoord server loops
  dcStop,       \* Server.Stop calls: idle / wait / returned, per caller
  rcSess,       \* RootCoord sessCloseCh and sessionLoop: open / closed /
                \* exiting / exited
  icSess,       \* channel returned by IndexCoord's session.Init: open / closed
  icCancelled,  \* IndexCoord.loopCtx is cancelled
  icStateCode,  \* IndexCoord.stateCode
  \* ---- DataCoord locks ----
  mu,           \* meta.RWMutex and Cluster.mu: the goroutine holding each
  gPc,          \* position of each goroutine in the operation it executes
  gOp,          \* the operation each goroutine executes
  \* ---- IndexCoord recycler and DropIndex ----
  indexFiles,   \* IndexCoord.kv (blob store): build-id -> versions that have
                \* index files under the prefix build-id/version
  recycled,     \* metaTable: build-ids whose row has the recycled flag
  metaLoaded,   \* IndexCoord.Init has loaded the meta table
  jobVersion,   \* build-id -> Version of the CreateIndex request a worker accepted last
  dropStatus,   \* ErrorCode of the DropIndex call that returned last
  dropCalls,    \* index-id -> number of DropIndex calls that returned
  \* ---- tsLoop of RootCoord and of IndexCoord ----
  rcTicks,      \* ticks of tsoTicker handled by Core.tsLoop
  idUpdates,    \* calls of Core.IDAllocatorUpdate made by Core.tsLoop
  icUpdates,    \* calls of idAllocator.UpdateID made by IndexCoord.tsLoop
  rcTsPc,       \* Core.tsLoop: select / returned
  icTsPc,       \* IndexCoord.tsLoop: select / returned
  rcCancelled,  \* Core.ctx is cancelled
  \* ---- DataCoord meta as a store of segments ----
  mSegs,        \* meta.segments: segment id -> SegmentInfo
  mKv,          \* meta.client: segment ids that have a saved record
  mNextID,      \* allocator: next segment id
  mOp,          \* the operation of meta that returned last, with its arguments
  \* ---- DataCoord: flush requests of the time-tick loop ----
  ttReturned,   \* segment ids GetFlushableSegments has returned to the loop
  flushSent     \* segment ids of the FlushSegments requests a data node accepted

idxVars == <<indexMeta, assignChan, nodeClients, nodeTasks, eventChan,
             watchChan, nextBuildID, pc, callReq, callID, ret, aPc, aBatch,
             aNode, wPc, wNode, wTasks, alive, nodeJob>>

metaVars == <<segments, kvSegs, kvBinlogs, flushCh, nextSegID, fPc, fSeg>>

clusterVars == <<clusterNodes, chanBuffer, kvNodes, kvBuffer, cEventCh,
                 dnEventCh, online, acked>>

ddVars == <<collections, partitions, ddMsgSent, ddOp, pubDone, rcPc, replay,
            stateCode, tPc>>

allocVars == <<gidHigh, gidCur, gidEnd, issued, issuedProc, allocRet>>

segIdxVars == <<segIndexRecs, buildCalls>>

lifeVars == <<isServing, dcCancelled, activeCh, dcLoop, dcStop, rcSess, icSess,
              icCancelled, icStateCode>>

lockVars == <<mu, gPc, gOp>>

recVars == <<indexFiles, recycled, metaLoaded, dropStatus, dropCalls,
             jobVersion>>

tickVars == <<rcTicks, idUpdates, icUpdates, rcTsPc, icTsPc, rcCancelled>>

storeVars == <<mSegs, mKv, mNextID, mOp>>

ttVars == <<ttReturned, flushSent>>

auxVars == <<recVars, tickVars, storeVars, ttVars>>

vars == <<idxVars, metaVars, clusterVars, ddVars, allocVars, segIdxVars, lifeVars,
          lockVars, auxVars>>

nonIdxVars == <<metaVars, clusterVars, ddVars, allocVars, segIdxVars, lifeVars,
    lockVars, auxVars>>
nonMetaVars == <<idxVars, clusterVars, ddVars, allocVars, segIdxVars, lifeVars,
    lockVars, auxVars>>
nonClusterVars == <<idxVars, metaVars, ddVars, allocVars, segIdxVars, lifeVars,
    lockVars, auxVars>>
nonDdVars == <<idxVars, metaVars, clusterVars, allocVars, segIdxVars, lifeVars,
    lockVars, auxVars>>
nonRootVars == <<idxVars, metaVars, clusterVars, segIdxVars, lifeVars,
    lockVars, auxVars>>
nonLifeVars == <<idxVars, metaVars, clusterVars, ddVars, allocVars, segIdxVars,
    lockVars, auxVars>>
nonLockVars == <<idxVars, metaVars, clusterVars, ddVars, allocVars, segIdxVars,
    lifeVars, auxVars>>
nonAuxVars == <<metaVars, clusterVars, ddVars, allocVars, segIdxVars, lifeVars,
    lockVars>>

\* ------------------------------------------------------------------------
\* Bounds of the model
\* ------------------------------------------------------------------------
NumNodes == 2        \* index workers
NumCallers == 2      \* concurrent BuildIndex callers
MaxVersion == 2      \* version bumps per build task
AssignChanCap == 2   \* modelled capacity of assignChan (1024 in the code)

Nodes == 1..NumNodes
Callers == 1..NumCallers
BuildIDs == {1, 2}   \* build-ids the allocator hands out
Reqs == {"r1", "r2"}
NoNode == 0

\* request -> IndexID carried by the request
IndexIDOf(r) == IF r = "r1" THEN 1 ELSE 2
IndexIDs == {IndexIDOf(r) : r \in Reqs}

NoRow == [exists |-> FALSE, req |-> "none", state |-> "None", version |-> 0,
          nodeID |-> NoNode, markDeleted |-> FALSE]

\* ascending sequence of the elements of a finite set of integers
RECURSIVE SetToSeq(_)
SetToSeq(S) ==
  IF S = {} THEN <<>>
  ELSE LET m == CHOOSE x \in S : \A y \in S : x <= y
       IN <<m>> \o SetToSeq(S \ {m})

SeqToSet(s) == {s[i] : i \in 1..Len(s)}

\* build-ids contained in the batches waiting on assignChan
OnAssignChan == UNION {SeqToSet(assignChan[i]) : i \in 1..Len(assignChan)}

\* ------------------------------------------------------------------------
\* IndexCoord: metaTable, PriorityQueue, nodeTasks
\* ------------------------------------------------------------------------
\* metaTable.HasSameReq: the non-deleted rows whose request equals r
SameReq(r) ==
  {b \in BuildIDs : indexMeta[b].exists /\ ~indexMeta[b].markDeleted
                    /\ indexMeta[b].req = r}

\* metaTable.AddIndex(indexBuildID, req): a fresh row, version 0
AddIndex(b, r) ==
  [indexMeta EXCEPT ![b] = [exists |-> TRUE, req |-> r, state |-> "None",
                            version |-> 0, nodeID |-> NoNode,
                            markDeleted |-> FALSE]]

\* metaTable.UpdateVersion(indexBuildID): version + 1
UpdateVersion(m, b) ==
  IF m[b].exists THEN [m EXCEPT ![b].version = @ + 1] ELSE m

\* metaTable.BuildIndex(indexBuildID, nodeID): state InProgress on nodeID
MetaBuildIndex(m, b, n) ==
  IF m[b].exists THEN [m EXCEPT ![b].state = "InProgress", ![b].nodeID = n]
  ELSE m

\* the flag of every row of the index is inverted
MarkIndexAsDeletedToggle(ix) ==
  [b \in BuildIDs |->
     IF indexMeta[b].exists /\ IndexIDOf(indexMeta[b].req) = ix
     THEN [indexMeta[b] EXCEPT !.markDeleted = ~@]
     ELSE indexMeta[b]]

\* metaTable.MarkIndexAsDeleted(indexID)
MarkIndexAsDeleted(ix) ==
  [b \in BuildIDs |->
     IF indexMeta[b].exists /\ IndexIDOf(indexMeta[b].req) = ix
     THEN [indexMeta[b] EXCEPT !.markDeleted = TRUE]
     ELSE indexMeta[b]]

\* PriorityQueue.PeekClient: the registered worker of lowest priority, ties
\* broken by ascending server-id; NoNode when the queue is empty
PeekClient ==
  IF DOMAIN nodeClients = {} THEN NoNode
  ELSE CHOOSE n \in DOMAIN nodeClients :
         \A k \in DOMAIN nodeClients :
            \/ nodeClients[n] < nodeClients[k]
            \/ (nodeClients[n] = nodeClients[k] /\ n <= k)

\* PriorityQueue.IncPriority(nodeID, 1)
IncPriority(q, n) ==
  IF n \in DOMAIN q THEN [q EXCEPT ![n] = @ + 1] ELSE q

\* IndexCoord.removeNode(serverID)
RemoveNode(q, n) == [k \in (DOMAIN q) \ {n} |-> q[k]]

\* nodeTasks.finishTask(indexBuildID)
FinishTask(t, b) == [n \in Nodes |-> t[n] \ {b}]

\* ------------------------------------------------------------------------
\* IndexCoord.BuildIndex (part_000:411-477)
\* ------------------------------------------------------------------------
\* BuildIndexResponse, with the request it answers
Success(b, r) == [status |-> "Success", id |-> b, req |-> r]
Failure(r) == [status |-> "UnexpectedError", id |-> 0, req |-> r]
NoRet == [status |-> "none", id |-> 0, req |-> "none"]

\* lines 419-429: HasSameReq finds a row, its build-id is returned
BuildIndexHasSame(c, r) ==
  /\ pc[c] = "idle"
  /\ \E b \in SameReq(r) : ret' = Success(b, r)
  /\ UNCHANGED <<nonIdxVars, indexMeta, assignChan, nodeClients, nodeTasks, eventChan,
                 watchChan, nextBuildID, pc, callReq, callID, aPc, aBatch,
                 aNode, wPc, wNode, wTasks, alive, nodeJob>>

\* BuildIndex without the HasSameReq test of lines 419-420
BuildIndexEnqueueNoCheck(c, r) ==
  /\ pc[c] = "idle"
  /\ nextBuildID \in BuildIDs
  /\ pc' = [pc EXCEPT ![c] = "enqueued"]
  /\ callReq' = [callReq EXCEPT ![c] = r]
  /\ callID' = [callID EXCEPT ![c] = nextBuildID]
  /\ nextBuildID' = nextBuildID + 1
  /\ UNCHANGED <<nonIdxVars, indexMeta, assignChan, nodeClients, nodeTasks, eventChan,
                 watchChan, ret, aPc, aBatch, aNode, wPc, wNode,
                 wTasks, alive, nodeJob>>

\* lines 430-465: no row matches; an IndexAddTask is enqueued, which
\* allocates its build-id
BuildIndexEnqueue(c, r) ==
  /\ pc[c] = "idle"
  /\ SameReq(r) = {}
  /\ nextBuildID \in BuildIDs
  /\ pc' = [pc EXCEPT ![c] = "enqueued"]
  /\ callReq' = [callReq EXCEPT ![c] = r]
  /\ callID' = [callID EXCEPT ![c] = nextBuildID]
  /\ nextBuildID' = nextBuildID + 1
  /\ UNCHANGED <<nonIdxVars, indexMeta, assignChan, nodeClients, nodeTasks, eventChan,
                 watchChan, ret, aPc, aBatch, aNode, wPc, wNode,
                 wTasks, alive, nodeJob>>

\* line 467: the scheduler runs the task, which adds the meta row
BuildIndexAdd(c) ==
  /\ pc[c] = "enqueued"
  /\ indexMeta' = AddIndex(callID[c], callReq[c])
  /\ pc' = [pc EXCEPT ![c] = "added"]
  /\ UNCHANGED <<nonIdxVars, assignChan, nodeClients, nodeTasks, eventChan, watchChan,
                 nextBuildID, callReq, callID, ret, aPc, aBatch, aNode,
                 wPc, wNode, wTasks, alive, nodeJob>>

\* lines 467-472: the task fails (KV error or timeout), UnexpectedError
BuildIndexFail(c) ==
  /\ pc[c] = "enqueued"
  /\ pc' = [pc EXCEPT ![c] = "idle"]
  /\ callReq' = [callReq EXCEPT ![c] = "none"]
  /\ callID' = [callID EXCEPT ![c] = 0]
  /\ ret' = Failure(callReq[c])
  /\ UNCHANGED <<nonIdxVars, indexMeta, assignChan, nodeClients, nodeTasks, eventChan,
                 watchChan, nextBuildID, aPc, aBatch,
                 aNode, wPc, wNode, wTasks, alive, nodeJob>>

\* lines 473-476: the build-id is sent on assignChan and returned
BuildIndexSend(c) ==
  /\ pc[c] = "added"
  /\ Len(assignChan) < AssignChanCap
  /\ assignChan' = Append(assignChan, <<callID[c]>>)
  /\ pc' = [pc EXCEPT ![c] = "idle"]
  /\ callReq' = [callReq EXCEPT ![c] = "none"]
  /\ callID' = [callID EXCEPT ![c] = 0]
  /\ ret' = Success(callID[c], callReq[c])
  /\ UNCHANGED <<nonIdxVars, indexMeta, nodeClients, nodeTasks, eventChan, watchChan,
                 nextBuildID, aPc, aBatch, aNode,
                 wPc, wNode, wTasks, alive, nodeJob>>

\* IndexCoord.DropIndex (part_000:515-539): the rows of the index are marked
\* deleted; IndexAddTasks of the index still waiting in the add queue are
\* removed (their callers time out)
DropIndex(ix) ==
  LET removed == {c \in Callers :
                    pc[c] = "enqueued" /\ IndexIDOf(callReq[c]) = ix}
  IN /\ indexMeta' = MarkIndexAsDeleted(ix)
     /\ pc' = [c \in Callers |-> IF c \in removed THEN "idle" ELSE pc[c]]
     /\ callReq' = [c \in Callers |->
                      IF c \in removed THEN "none" ELSE callReq[c]]
     /\ callID' = [c \in Callers |-> IF c \in removed THEN 0 ELSE callID[c]]
     /\ ret' = IF removed # {}
               THEN Failure(callReq[CHOOSE c \in removed : TRUE])
               ELSE ret
     /\ (indexMeta' # indexMeta \/ removed # {})
     /\ UNCHANGED <<nonIdxVars, assignChan, nodeClients, nodeTasks, eventChan, watchChan,
                    nextBuildID, aPc, aBatch, aNode, wPc, wNode, wTasks,
                    alive, nodeJob>>

\* ------------------------------------------------------------------------
\* IndexCoord.assignmentTasksLoop (part_000:626-681)
\* ------------------------------------------------------------------------
\* the loop moves to the next build-id of the batch, or back to the select
Continue(rest) ==
  /\ aBatch' = rest
  /\ aPc' = IF rest = <<>> THEN "idle" ELSE "iter"
  /\ aNode' = NoNode

\* line 638: a batch is received
AssignDequeue ==
  /\ aPc = "idle"
  /\ assignChan # <<>>
  /\ assignChan' = Tail(assignChan)
  /\ Continue(Head(assignChan))
  /\ UNCHANGED <<nonIdxVars, indexMeta, nodeClients, nodeTasks, eventChan, watchChan,
                 nextBuildID, pc, callReq, callID, ret, wPc, wNode, wTasks,
                 alive, nodeJob>>

\* lines 640-644: the task is Finished, it is skipped
AssignSkipFinished ==
  /\ aPc = "iter"
  /\ indexMeta[Head(aBatch)].state = "Finished"
  /\ Continue(Tail(aBatch))
  /\ UNCHANGED <<nonIdxVars, indexMeta, assignChan, nodeClients, nodeTasks, eventChan,
                 watchChan, nextBuildID, pc, callReq, callID, ret, wPc,
                 wNode, wTasks, alive, nodeJob>>

\* lines 640-648: the meta is read, the version bumped, a worker peeked
AssignPeek ==
  /\ aPc = "iter"
  /\ indexMeta[Head(aBatch)].state # "Finished"
  /\ indexMeta[Head(aBatch)].version < MaxVersion
  /\ indexMeta' = UpdateVersion(indexMeta, Head(aBatch))
  /\ aNode' = PeekClient
  /\ aPc' = IF PeekClient = NoNode THEN "requeue" ELSE "assign"
  /\ UNCHANGED <<nonIdxVars, assignChan, nodeClients, nodeTasks, eventChan, watchChan,
                 nextBuildID, pc, callReq, callID, ret, aBatch, wPc, wNode,
                 wTasks, alive, nodeJob>>

\* lines 649-653: no worker, the build-id is sent back on assignChan
AssignRequeue ==
  /\ aPc = "requeue"
  /\ Len(assignChan) < AssignChanCap
  /\ assignChan' = Append(assignChan, <<Head(aBatch)>>)
  /\ Continue(Tail(aBatch))
  /\ UNCHANGED <<nonIdxVars, indexMeta, nodeClients, nodeTasks, eventChan, watchChan,
                 nextBuildID, pc, callReq, callID, ret, wPc, wNode, wTasks,
                 alive, nodeJob>>

\* lines 654-673: the task is put in the worker's task set, CreateIndex is
\* issued and returns an error or a non-Success status
AssignRPCFail ==
  /\ aPc = "assign"
  /\ nodeTasks' = [nodeTasks EXCEPT ![aNode] = @ \cup {Head(aBatch)}]
  /\ Continue(Tail(aBatch))
  /\ UNCHANGED <<nonIdxVars, indexMeta, assignChan, nodeClients, eventChan, watchChan,
                 nextBuildID, pc, callReq, callID, ret, wPc, wNode, wTasks,
                 alive, nodeJob>>

\* lines 654-677: CreateIndex succeeds on a live worker; the meta moves to
\* InProgress and the worker's priority is incremented
AssignRPCOk ==
  /\ aPc = "assign"
  /\ alive[aNode]
  /\ nodeTasks' = [nodeTasks EXCEPT ![aNode] = @ \cup {Head(aBatch)}]
  /\ nodeJob' = [nodeJob EXCEPT ![aNode] = @ \cup {Head(aBatch)}]
  /\ indexMeta' = MetaBuildIndex(indexMeta, Head(aBatch), aNode)
  /\ nodeClients' = IncPriority(nodeClients, aNode)
  /\ Continue(Tail(aBatch))
  /\ UNCHANGED <<nonIdxVars, assignChan, eventChan, watchChan, nextBuildID, pc, callReq,
                 callID, ret, wPc, wNode, wTasks, alive>>

\* ------------------------------------------------------------------------
\* Index workers and the session registry
\* ------------------------------------------------------------------------
\* a worker writes the outcome of a build into the meta row
NodeReport(n, b, st) ==
  /\ b \in nodeJob[n]
  /\ indexMeta[b].exists
  /\ Len(watchChan) < Cardinality(BuildIDs)
  /\ indexMeta' = [indexMeta EXCEPT ![b].state = st]
  /\ nodeJob' = [nodeJob EXCEPT ![n] = @ \ {b}]
  /\ watchChan' = Append(watchChan, [id |-> b, state |-> st])
  /\ UNCHANGED <<nonIdxVars, assignChan, nodeClients, nodeTasks, eventChan, nextBuildID,
                 pc, callReq, callID, ret, aPc, aBatch, aNode, wPc,
                 wNode, wTasks, alive>>

\* the session of a worker is lost: the registry publishes SessionDelEvent
NodeCrash(n) ==
  /\ alive[n]
  /\ alive' = [alive EXCEPT ![n] = FALSE]
  /\ nodeJob' = [nodeJob EXCEPT ![n] = {}]
  /\ eventChan' = Append(eventChan, n)
  /\ UNCHANGED <<nonIdxVars, indexMeta, assignChan, nodeClients, nodeTasks, watchChan,
                 nextBuildID, pc, callReq, callID, ret, aPc, aBatch, aNode,
                 wPc, wNode, wTasks>>

\* an index worker registers: IndexCoord.addNode (called at part_000:769)
\* puts it in the priority queue with priority 0
NodeJoin(n) ==
  /\ ~alive[n]
  /\ n \notin DOMAIN nodeClients
  /\ alive' = [alive EXCEPT ![n] = TRUE]
  /\ nodeClients' = [k \in DOMAIN nodeClients \cup {n} |->
                       IF k = n THEN 0 ELSE nodeClients[k]]
  /\ UNCHANGED <<nonIdxVars, indexMeta, assignChan, nodeTasks, eventChan, watchChan,
                 nextBuildID, pc, callReq, callID, ret, aPc, aBatch, aNode,
                 wPc, wNode, wTasks, nodeJob>>

\* ------------------------------------------------------------------------
\* IndexCoord.watchNodeLoop (part_000:683-710), SessionDelEvent
\* ------------------------------------------------------------------------
\* lines 699-704: the worker is removed, its task set is read
WatchNodeDel ==
  /\ wPc = "idle"
  /\ eventChan # <<>>
  /\ eventChan' = Tail(eventChan)
  /\ wNode' = Head(eventChan)
  /\ nodeClients' = RemoveNode(nodeClients, Head(eventChan))
  /\ wTasks' = SetToSeq(nodeTasks[Head(eventChan)])
  /\ wPc' = "send"
  /\ UNCHANGED <<nonIdxVars, indexMeta, assignChan, nodeTasks, watchChan, nextBuildID,
                 pc, callReq, callID, ret, aPc, aBatch, aNode,
                 alive, nodeJob>>

\* SessionDelEvent handling that deletes the task set without the send of
\* line 705
WatchNodeSendDrop ==
  /\ wPc = "send"
  /\ nodeTasks' = [nodeTasks EXCEPT ![wNode] = {}]
  /\ wPc' = "idle"
  /\ wNode' = NoNode
  /\ wTasks' = <<>>
  /\ UNCHANGED <<nonIdxVars, indexMeta, assignChan, nodeClients, eventChan, watchChan,
                 nextBuildID, pc, callReq, callID, ret, aPc, aBatch, aNode,
                 alive, nodeJob>>

\* lines 705-706: the ids are sent on assignChan, the task set is deleted
WatchNodeSend ==
  /\ wPc = "send"
  /\ Len(assignChan) < AssignChanCap
  /\ assignChan' = Append(assignChan, wTasks)
  /\ nodeTasks' = [nodeTasks EXCEPT ![wNode] = {}]
  /\ wPc' = "idle"
  /\ wNode' = NoNode
  /\ wTasks' = <<>>
  /\ UNCHANGED <<nonIdxVars, indexMeta, nodeClients, eventChan, watchChan, nextBuildID,
                 pc, callReq, callID, ret, aPc, aBatch, aNode,
                 alive, nodeJob>>

\* ------------------------------------------------------------------------
\* IndexCoord.watchMetaLoop (part_000:712-747), PUT event
\* ------------------------------------------------------------------------
\* metaTable.LoadMetaFromETCD(indexBuildID, revision): the row is reloaded
\* when it still exists (the event of a worker's write is newer than the
\* table)
LoadMetaFromETCD(b) == indexMeta[b].exists

WatchMetaPut ==
  /\ watchChan # <<>>
  /\ watchChan' = Tail(watchChan)
  /\ nodeTasks' = IF LoadMetaFromETCD(Head(watchChan).id)
                  THEN FinishTask(nodeTasks, Head(watchChan).id)
                  ELSE nodeTasks
  /\ UNCHANGED <<nonIdxVars, indexMeta, assignChan, nodeClients, eventChan, nextBuildID,
                 pc, callReq, callID, ret, aPc, aBatch, aNode, wPc,
                 wNode, wTasks, alive, nodeJob>>

\* ------------------------------------------------------------------------
\* IndexCoord: initial state and specifications
\* ------------------------------------------------------------------------
\* IndexCoord.Init / assignTasksServerStart on an empty meta table: the
\* workers with a session, S, are registered with priority 0
InitIndexWith(S) ==
  /\ indexMeta = [b \in BuildIDs |-> NoRow]
  /\ assignChan = <<>>
  /\ nodeClients = [n \in S |-> 0]
  /\ alive = [n \in Nodes |-> n \in S]
  /\ nodeTasks = [n \in Nodes |-> {}]
  /\ eventChan = <<>>
  /\ watchChan = <<>>
  /\ nextBuildID = 1
  /\ pc = [c \in Callers |-> "idle"]
  /\ callReq = [c \in Callers |-> "none"]
  /\ callID = [c \in Callers |-> 0]
  /\ ret = NoRet
  /\ aPc = "idle"
  /\ aBatch = <<>>
  /\ aNode = NoNode
  /\ wPc = "idle"
  /\ wNode = NoNode
  /\ wTasks = <<>>
  /\ nodeJob = [n \in Nodes |-> {}]

InitIndex == \E S \in SUBSET Nodes : InitIndexWith(S)


\* ------------------------------------------------------------------------
\* DataCoord meta (src/internal/datacoord/meta.go)
\* ------------------------------------------------------------------------
NumSegs == 1      \* segment ids the allocator hands out
MaxRows == 1      \* largest row count of a request
MaxTs == 2        \* largest checkpoint timestamp
FlushChCap == 2   \* modelled capacity of flushCh (1024 in the code)

SegIDs == 1..NumSegs
SegStates == {"Growing", "Sealed", "Flushing", "Flushed"}

\* order of the segment lifecycle
Rank(st) ==
  CASE st = "Growing" -> 0
    [] st = "Sealed" -> 1
    [] st = "Flushing" -> 2
    [] st = "Flushed" -> 3
    [] OTHER -> 4

\* no SegmentInfo; dmlTs 0 is a nil DmlPosition, startPos 0 an empty one
NoSeg == [exists |-> FALSE, state |-> "Growing", numRows |-> 0, dmlTs |-> 0,
          startPos |-> 0]

\* SegmentsInfo.SetSegment(id, info) with the info of a new growing segment
NewSegment == [exists |-> TRUE, state |-> "Growing", numRows |-> 0,
               dmlTs |-> 0, startPos |-> 0]

\* SegmentsInfo.SetState: the stored segment gets the state
SegmentsSetState(segs, id, st) ==
  IF segs[id].exists THEN [segs EXCEPT ![id].state = st] ELSE segs

\* SegmentsInfo.SetRowCount
SegmentsSetRowCount(segs, id, n) ==
  IF segs[id].exists THEN [segs EXCEPT ![id].numRows = n] ELSE segs

\* SegmentsInfo.SetStartPosition
SegmentsSetStartPosition(segs, id, pos) ==
  IF segs[id].exists THEN [segs EXCEPT ![id].startPos = pos] ELSE segs

\* SegmentsInfo.SetDmlPositino
SegmentsSetDmlPosition(segs, id, ts) ==
  IF segs[id].exists THEN [segs EXCEPT ![id].dmlTs = ts] ELSE segs

\* meta.saveSegmentInfo of the in-memory record when the KV write succeeds
SaveSegmentInfo(segs, id, ok) ==
  IF segs[id].exists /\ ok THEN [kvSegs EXCEPT ![id] = segs[id]] ELSE kvSegs

\* meta.AddSegment (meta.go:96-104): the segment is stored, then saved
AddSegment(ok) ==
  /\ nextSegID \in SegIDs
  /\ segments' = [segments EXCEPT ![nextSegID] = NewSegment]
  /\ kvSegs' = SaveSegmentInfo(segments', nextSegID, ok)
  /\ nextSegID' = nextSegID + 1
  /\ UNCHANGED <<nonMetaVars, kvBinlogs, flushCh, fPc, fSeg>>

\* meta.SetRowCount (meta.go:106-114)
SetRowCount(id, n, ok) ==
  /\ segments[id].exists
  /\ segments' = SegmentsSetRowCount(segments, id, n)
  /\ kvSegs' = SaveSegmentInfo(segments', id, ok)
  /\ UNCHANGED <<nonMetaVars, kvBinlogs, flushCh, nextSegID, fPc, fSeg>>

\* meta.DropSegment (meta.go:126-135)
DropSegment(id, ok) ==
  /\ segments[id].exists
  /\ segments' = [segments EXCEPT ![id] = NoSeg]
  /\ kvSegs' = IF ok THEN [kvSegs EXCEPT ![id] = NoSeg] ELSE kvSegs
  /\ UNCHANGED <<nonMetaVars, kvBinlogs, flushCh, nextSegID, fPc, fSeg>>

\* meta.SetState (meta.go:143-151): the state is set, then the record saved
SetState(id, st, ok) ==
  /\ segments' = SegmentsSetState(segments, id, st)
  /\ kvSegs' = SaveSegmentInfo(segments', id, ok)

\* the segment manager seals a growing segment
SealSegment(id, ok) ==
  /\ segments[id].exists /\ segments[id].state = "Growing"
  /\ SetState(id, "Sealed", ok)
  /\ UNCHANGED <<nonMetaVars, kvBinlogs, flushCh, nextSegID, fPc, fSeg>>

\* segmentManager.GetFlushableSegments (server.go:326): a sealed segment
\* past its expire time is marked Flushing
GetFlushableSegments(id, ok) ==
  /\ segments[id].exists /\ segments[id].state = "Sealed"
  /\ SetState(id, "Flushing", ok)
  /\ UNCHANGED <<nonMetaVars, kvBinlogs, flushCh, nextSegID, fPc, fSeg>>

\* arguments of SaveBinlogAndCheckPoints: a checkpoint of the segment and
\* a start position (msgID 0 is an empty MsgID), either of which may be absent
NoCp == [present |-> FALSE, ts |-> 0, rows |-> 0]
CheckPoints ==
  {NoCp} \cup [present : {TRUE}, ts : 1..MaxTs, rows : 0..MaxRows]
NoStart == [present |-> FALSE, msgID |-> 0]
StartPositions == {NoStart} \cup [present : {TRUE}, msgID : {0, 1}]

\* meta.go:162-164: flushed sets the state Flushing
SaveFlushed(segs, id, flushed) ==
  IF flushed THEN SegmentsSetState(segs, id, "Flushing") ELSE segs

\* meta.go:167-175: a start position is skipped when its MsgID is not empty
StartApplies(segs, id, start) ==
  start.present /\ ~(start.msgID # 0) /\ segs[id].exists

\* every checkpoint of a stored segment is applied
CheckPointAppliesAlways(segs, id, cp) == cp.present /\ segs[id].exists

\* meta.go:177-187: a checkpoint is skipped when the segment's DmlPosition is
\* not older
CheckPointApplies(segs, id, cp) ==
  /\ cp.present /\ segs[id].exists
  /\ ~(segs[id].dmlTs # 0 /\ segs[id].dmlTs >= cp.ts)

\* the in-memory segments after meta.go:162-187
SaveInMemory(id, flushed, cp, start) ==
  LET s1 == SaveFlushed(segments, id, flushed)
      s2 == IF StartApplies(s1, id, start)
            THEN SegmentsSetStartPosition(s1, id, start.msgID) ELSE s1
  IN IF CheckPointApplies(s2, id, cp)
     THEN SegmentsSetRowCount(SegmentsSetDmlPosition(s2, id, cp.ts), id,
                              cp.rows)
     ELSE s2

\* meta.SaveBinlogAndCheckPoints (meta.go:153-201): the binlog paths and the
\* records of the segments in modSegments are saved in one transaction
SaveBinlogAndCheckPoints(id, flushed, cp, start, ok) ==
  LET s1 == SaveFlushed(segments, id, flushed)
      modified == \/ StartApplies(s1, id, start)
                  \/ CheckPointApplies(s1, id, cp)
  IN /\ segments' = SaveInMemory(id, flushed, cp, start)
     /\ kvSegs' = IF ok /\ modified
                  THEN [kvSegs EXCEPT ![id] = segments'[id]] ELSE kvSegs
     /\ kvBinlogs' = IF ok THEN kvBinlogs \cup {id} ELSE kvBinlogs

\* Server.SaveBinlogPaths: a data node reports binlogs of a stored segment;
\* when the save succeeds and the request is flushed, the segment id is sent
\* on flushCh
SaveBinlogPaths(id, flushed, cp, start, ok) ==
  /\ segments[id].exists
  /\ (ok /\ flushed) => Len(flushCh) < FlushChCap
  /\ SaveBinlogAndCheckPoints(id, flushed, cp, start, ok)
  /\ flushCh' = IF ok /\ flushed THEN Append(flushCh, id) ELSE flushCh
  /\ UNCHANGED <<nonMetaVars, nextSegID, fPc, fSeg>>

\* ------------------------------------------------------------------------
\* DataCoord Server.startFlushLoop (server.go:408-445)
\* ------------------------------------------------------------------------
\* server.go:420-425: a segment id is received and the segment looked up
FlushRecv ==
  /\ fPc = "idle"
  /\ flushCh # <<>>
  /\ flushCh' = Tail(flushCh)
  /\ IF segments[Head(flushCh)].exists
     THEN fPc' = "rpc" /\ fSeg' = Head(flushCh)
     ELSE fPc' = "idle" /\ fSeg' = 0
  /\ UNCHANGED <<nonMetaVars, segments, kvSegs, kvBinlogs, nextSegID>>

\* server.go:426-442: SegmentFlushCompleted is called on RootCoord; when it
\* succeeds the segment is set Flushed
FlushCompleted(rpcOk, ok) ==
  /\ fPc = "rpc"
  /\ IF rpcOk THEN SetState(fSeg, "Flushed", ok)
     ELSE UNCHANGED <<segments, kvSegs>>
  /\ fPc' = "idle"
  /\ fSeg' = 0
  /\ UNCHANGED <<nonMetaVars, kvBinlogs, flushCh, nextSegID>>

\* segments of a set in ascending order of id
FlushingSegments(segs) ==
  SetToSeq({id \in SegIDs : segs[id].exists /\ segs[id].state = "Flushing"})

\* DataCoord restarts: newMeta reloads the segments from KV (meta.go:49-65),
\* handleFlushingSegments sends the Flushing ones on a new flushCh
\* (server.go:447-456)
RestartMeta ==
  /\ segments' = kvSegs
  /\ flushCh' = FlushingSegments(kvSegs)
  /\ fPc' = "idle"
  /\ fSeg' = 0
  /\ UNCHANGED <<nonMetaVars, kvSegs, kvBinlogs, nextSegID>>

InitMeta ==
  /\ segments = [id \in SegIDs |-> NoSeg]
  /\ kvSegs = [id \in SegIDs |-> NoSeg]
  /\ kvBinlogs = {}
  /\ flushCh = <<>>
  /\ nextSegID = 1
  /\ fPc = "idle"
  /\ fSeg = 0

\* ------------------------------------------------------------------------
\* DataCoord Cluster (src/unnamed/part_005)
\* ------------------------------------------------------------------------
NumDataNodes == 2       \* data nodes
NumChannels == 2        \* ingest channels
ClusterEventChCap == 2  \* modelled capacity of Cluster.eventCh
DnEventChCap == 1       \* modelled capacity of a node's event channel

DataNodes == 1..NumDataNodes
Channels == 1..NumChannels

\* a NodeInfo: the watch state of each channel, "None" when the channel is
\* not in the node's channel list
NoChans == [ch \in Channels |-> "None"]
NoNodeInfo == [present |-> FALSE, chans |-> NoChans]

ChannelsOf(info) == {ch \in Channels : info.chans[ch] # "None"}
Uncompletes(info) == {ch \in Channels : info.chans[ch] = "Uncomplete"}

\* ClusterStore.GetNodes
GetNodes(nodes) == {n \in DataNodes : nodes[n].present}

\* Event of Cluster.eventCh
Ev(type, n, ch, chans) ==
  [type |-> type, node |-> n, channel |-> ch, chans |-> chans]

\* NodeInfo with channels added in state Uncomplete
AddChannels(info, chs) ==
  [present |-> TRUE,
   chans |-> [ch \in Channels |->
                IF ch \in chs THEN "Uncomplete" ELSE info.chans[ch]]]

\* registerPolicy (newAssiggBufferRegisterPolicy): the new node takes the
\* buffered channels
RegisterPolicy(n, chans, buffer) ==
  AddChannels([present |-> TRUE, chans |-> chans], buffer)

\* channelAssignPolicy (newBalancedAssignPolicy): the nodes that may take a
\* channel no node has, those with the fewest channels
AssignTargets(nodes, ch) ==
  IF \E n \in GetNodes(nodes) : nodes[n].chans[ch] # "None" THEN {}
  ELSE {n \in GetNodes(nodes) :
          \A m \in GetNodes(nodes) :
             Cardinality(ChannelsOf(nodes[n])) <=
               Cardinality(ChannelsOf(nodes[m]))}

\* ClusterStore.SetWatched(nodeID, channels): the named channels of the
\* node become Complete
SetWatched(nodes, n, chs) ==
  IF nodes[n].present
  THEN [nodes EXCEPT ![n].chans =
          [ch \in Channels |->
             IF ch \in chs /\ @[ch] # "None" THEN "Complete" ELSE @[ch]]]
  ELSE nodes

\* Cluster.txnSaveNodesAndBuffer (part_005:501-519), nodes part; its callers
\* discard the error, the transaction is taken to succeed
TxnSaveNodes(nodes, rets, buffer) ==
  IF rets = {} /\ buffer = {} THEN kvNodes
  ELSE [n \in DataNodes |-> IF n \in rets THEN nodes[n] ELSE kvNodes[n]]

\* Cluster.txnSaveNodesAndBuffer (part_005:501-519), buffer part
TxnSaveBuffer(rets, buffer) ==
  IF rets = {} /\ buffer = {} THEN kvBuffer ELSE buffer

\* Cluster.watch (part_005:454-493) for the nodes of rets: a Watch event
\* with the Uncomplete channels is sent to the node, unless there is none or
\* the positions cannot be read
WatchSent(q, nodes, rets, posOk) ==
  [n \in DataNodes |->
     IF n \in rets /\ Uncompletes(nodes[n]) # {} /\ posOk
     THEN Append(q[n], [type |-> "Watch", chans |-> Uncompletes(nodes[n])])
     ELSE q[n]]

\* the sends of Cluster.watch do not block
WatchCanSend(q, nodes, rets, posOk) ==
  \A n \in rets :
     (Uncompletes(nodes[n]) # {} /\ posOk) => Len(q[n]) < DnEventChCap

\* Server.startWatchService (server.go:352-386), SessionAddEvent: a node
\* with an empty channel list is registered
SessionAdd(n) ==
  /\ n \notin online
  /\ Len(cEventCh) < ClusterEventChCap
  /\ online' = online \cup {n}
  /\ cEventCh' = Append(cEventCh, Ev("Register", n, 0, NoChans))
  /\ UNCHANGED <<nonClusterVars, clusterNodes, chanBuffer, kvNodes, kvBuffer,
                 dnEventCh, acked>>

\* Server.startWatchService (server.go:352-386), SessionDelEvent
SessionDel(n) ==
  /\ n \in online
  /\ Len(cEventCh) < ClusterEventChCap
  /\ online' = online \ {n}
  /\ cEventCh' = Append(cEventCh, Ev("UnRegister", n, 0, NoChans))
  /\ UNCHANGED <<nonClusterVars, clusterNodes, chanBuffer, kvNodes, kvBuffer,
                 dnEventCh, acked>>

\* Cluster.Watch (part_005:180-188) of a channel that is not buffered
WatchChannel(ch) ==
  /\ ch \notin chanBuffer
  /\ Len(cEventCh) < ClusterEventChCap
  /\ cEventCh' = Append(cEventCh, Ev("WatchChannel", 0, ch, NoChans))
  /\ UNCHANGED <<nonClusterVars, clusterNodes, chanBuffer, kvNodes, kvBuffer,
                 dnEventCh, online, acked>>

\* Cluster.handleRegister (part_005:338-354)
HandleRegister(posOk) ==
  /\ cEventCh # <<>> /\ Head(cEventCh).type = "Register"
  /\ LET e == Head(cEventCh)
         n == e.node
         nodes == [clusterNodes EXCEPT
                     ![n] = RegisterPolicy(n, e.chans, chanBuffer)]
         q == [dnEventCh EXCEPT ![n] = <<>>]
     IN /\ WatchCanSend(q, nodes, {n}, posOk)
        /\ clusterNodes' = nodes
        /\ chanBuffer' = {}
        /\ kvNodes' = TxnSaveNodes(nodes, {n}, {})
        /\ kvBuffer' = TxnSaveBuffer({n}, {})
        /\ dnEventCh' = WatchSent(q, nodes, {n}, posOk)
        /\ acked' = {p \in acked : p[1] # n}
  /\ cEventCh' = Tail(cEventCh)
  /\ UNCHANGED <<nonClusterVars, online>>

\* Cluster.handleUnRegister (part_005:356-384); unregisterPolicy
\* (randomAssignRegisterFunc) gives each channel of the NodeInfo it is passed
\* to one of the remaining nodes
HandleUnRegister(posOk) ==
  /\ cEventCh # <<>> /\ Head(cEventCh).type = "UnRegister"
  /\ cEventCh' = Tail(cEventCh)
  /\ LET e == Head(cEventCh)
         n == e.node
         node == clusterNodes[n]
         deleted == [clusterNodes EXCEPT ![n] = NoNodeInfo]
         cNodes == GetNodes(deleted)
         moved == {ch \in Channels : e.chans[ch] # "None"}
     IN IF ~node.present
        THEN UNCHANGED <<clusterNodes, chanBuffer, kvNodes, kvBuffer,
                         dnEventCh, acked>>
        ELSE IF cNodes = {}
        THEN /\ clusterNodes' = deleted
             /\ chanBuffer' = chanBuffer \cup ChannelsOf(node)
             /\ kvNodes' = TxnSaveNodes(deleted, {}, chanBuffer')
             /\ kvBuffer' = TxnSaveBuffer({}, chanBuffer')
             /\ dnEventCh' = [dnEventCh EXCEPT ![n] = <<>>]
             /\ acked' = {p \in acked : p[1] # n}
        ELSE \E f \in [moved -> cNodes] :
               LET rets == {f[ch] : ch \in moved}
                   nodes == [m \in DataNodes |->
                               IF m \in rets
                               THEN AddChannels(deleted[m],
                                                {ch \in moved : f[ch] = m})
                               ELSE deleted[m]]
                   q == [dnEventCh EXCEPT ![n] = <<>>]
               IN /\ WatchCanSend(q, nodes, rets, posOk)
                  /\ clusterNodes' = nodes
                  /\ chanBuffer' = chanBuffer
                  /\ kvNodes' = TxnSaveNodes(nodes, rets, chanBuffer)
                  /\ kvBuffer' = TxnSaveBuffer(rets, chanBuffer)
                  /\ dnEventCh' = WatchSent(q, nodes, rets, posOk)
                  /\ acked' = {p \in acked :
                                 p[1] # n /\ ~(p[2] \in moved /\ f[p[2]] = p[1])}
  /\ UNCHANGED <<nonClusterVars, online>>

\* Cluster.handleWatchChannel (part_005:386-407)
HandleWatchChannel(posOk) ==
  /\ cEventCh # <<>> /\ Head(cEventCh).type = "WatchChannel"
  /\ cEventCh' = Tail(cEventCh)
  /\ LET ch == Head(cEventCh).channel
         targets == AssignTargets(clusterNodes, ch)
     IN IF GetNodes(clusterNodes) = {}
        THEN /\ chanBuffer' = chanBuffer \cup {ch}
             /\ kvNodes' = TxnSaveNodes(clusterNodes, {}, chanBuffer')
             /\ kvBuffer' = TxnSaveBuffer({}, chanBuffer')
             /\ UNCHANGED <<clusterNodes, dnEventCh, acked>>
        ELSE IF targets = {}
        THEN /\ kvNodes' = TxnSaveNodes(clusterNodes, {}, chanBuffer)
             /\ kvBuffer' = TxnSaveBuffer({}, chanBuffer)
             /\ UNCHANGED <<clusterNodes, chanBuffer, dnEventCh, acked>>
        ELSE \E n \in targets :
               LET nodes == [clusterNodes EXCEPT
                               ![n] = AddChannels(clusterNodes[n], {ch})]
               IN /\ WatchCanSend(dnEventCh, nodes, {n}, posOk)
                  /\ clusterNodes' = nodes
                  /\ kvNodes' = TxnSaveNodes(nodes, {n}, chanBuffer)
                  /\ kvBuffer' = TxnSaveBuffer({n}, chanBuffer)
                  /\ dnEventCh' = WatchSent(dnEventCh, nodes, {n}, posOk)
                  /\ acked' = acked \ {<<n, ch>>}
                  /\ UNCHANGED chanBuffer
  /\ UNCHANGED <<nonClusterVars, online>>

\* Cluster.handleEvent (part_005:214-273), Watch event, with a client:
\* WatchDmChannels is called, its failure is logged, the channels of the
\* request are set watched and the node is saved
HandleWatchEvent(n, rpcOk, ok) ==
  /\ dnEventCh[n] # <<>> /\ Head(dnEventCh[n]).type = "Watch"
  /\ dnEventCh' = [dnEventCh EXCEPT ![n] = Tail(@)]
  /\ clusterNodes' = SetWatched(clusterNodes, n, Head(dnEventCh[n]).chans)
  /\ kvNodes' = IF ok /\ clusterNodes'[n].present
                THEN [kvNodes EXCEPT ![n] = clusterNodes'[n]] ELSE kvNodes
  /\ acked' = IF rpcOk
              THEN acked \cup {<<n, ch>> : ch \in Head(dnEventCh[n]).chans}
              ELSE acked
  /\ UNCHANGED <<nonClusterVars, chanBuffer, kvBuffer, cEventCh, online>>

\* Cluster.handleEvent (part_005:223-234): no client can be created, the
\* event is dropped
HandleEventNoClient(n) ==
  /\ dnEventCh[n] # <<>>
  /\ dnEventCh' = [dnEventCh EXCEPT ![n] = Tail(@)]
  /\ UNCHANGED <<nonClusterVars, clusterNodes, chanBuffer, kvNodes, kvBuffer,
                 cEventCh, online, acked>>

\* Cluster.Startup (part_005:297-310): Register events of the sessions not
\* stored, then UnRegister events of the stored nodes without session
StartupEvents(nodes) ==
  LET adds == SetToSeq(online \ GetNodes(nodes))
      dels == SetToSeq(GetNodes(nodes) \ online)
  IN [i \in 1..Len(adds) |-> Ev("Register", adds[i], 0, NoChans)] \o
     [i \in 1..Len(dels) |-> Ev("UnRegister", dels[i], 0, nodes[dels[i]].chans)]

\* DataCoord restarts: NewCluster loads nodes and buffer from KV
\* (part_005:130-157), then Startup
RestartCluster ==
  /\ Len(StartupEvents(kvNodes)) <= ClusterEventChCap
  /\ clusterNodes' = kvNodes
  /\ chanBuffer' = kvBuffer
  /\ dnEventCh' = [n \in DataNodes |-> <<>>]
  /\ cEventCh' = StartupEvents(kvNodes)
  /\ UNCHANGED <<nonClusterVars, kvNodes, kvBuffer, online, acked>>

InitCluster ==
  /\ clusterNodes = [n \in DataNodes |-> NoNodeInfo]
  /\ chanBuffer = {}
  /\ kvNodes = [n \in DataNodes |-> NoNodeInfo]
  /\ kvBuffer = {}
  /\ cEventCh = <<>>
  /\ dnEventCh = [n \in DataNodes |-> <<>>]
  /\ online = {}
  /\ acked = {}

\* ------------------------------------------------------------------------
\* Flush-done handshake: Server.startFlushLoop (server.go:408-445) with
\* Core.SegmentFlushCompleted and Core.BuildIndex (part_001)
\* ------------------------------------------------------------------------
NumFields == 2                    \* indexed fields of the collection
MinSegmentSizeToEnableIndex == 1  \* rows from which an index is built
MaxBuildCalls == 2                \* buildCalls counts up to this number

Fields == 1..NumFields

\* Core.BuildIndex that asks for a build whether or not the segment is indexed
CoreBuildIndexNoCheck(seg, f, svcOk) ==
  /\ segments[seg].numRows >= MinSegmentSizeToEnableIndex
  /\ svcOk

\* Core.BuildIndex (part_001:840-867) returns a build id other than 0: the
\* segment is not indexed on the field, has enough rows, and the calls to
\* DataCoord and IndexCoord succeed
CoreBuildIndex(seg, f, svcOk) ==
  /\ ~(segIndexRecs[seg][f] > 0)
  /\ segments[seg].numRows >= MinSegmentSizeToEnableIndex
  /\ svcOk

\* server.go:426-442 with Core.SegmentFlushCompleted (part_001:1839-1907):
\* RootCoord asks for a build for every field index and records the build
\* ids it got (a failing AddIndex is logged); it answers Success whatever the
\* builds returned, and DataCoord then sets the segment Flushed
FlushCompletedRc(rpcOk, svcOk, addOk, ok) ==
  /\ fPc = "rpc"
  /\ IF rpcOk
     THEN /\ buildCalls' =
               [buildCalls EXCEPT ![fSeg] =
                  [f \in Fields |->
                     IF CoreBuildIndex(fSeg, f, svcOk[f])
                        /\ buildCalls[fSeg][f] < MaxBuildCalls
                     THEN buildCalls[fSeg][f] + 1
                     ELSE buildCalls[fSeg][f]]]
          /\ segIndexRecs' =
               [segIndexRecs EXCEPT ![fSeg] =
                  [f \in Fields |->
                     IF CoreBuildIndex(fSeg, f, svcOk[f]) /\ addOk[f]
                        /\ segIndexRecs[fSeg][f] < MaxBuildCalls
                     THEN segIndexRecs[fSeg][f] + 1
                     ELSE segIndexRecs[fSeg][f]]]
          /\ SetState(fSeg, "Flushed", ok)
     ELSE UNCHANGED <<segments, kvSegs, segIdxVars>>
  /\ fPc' = "idle"
  /\ fSeg' = 0
  /\ UNCHANGED <<idxVars, clusterVars, ddVars, allocVars, lifeVars, lockVars, auxVars, kvBinlogs, flushCh,
                 nextSegID>>

InitSegIdx ==
  /\ segIndexRecs = [id \in SegIDs |-> [f \in Fields |-> 0]]
  /\ buildCalls = [id \in SegIDs |-> [f \in Fields |-> 0]]

\* ------------------------------------------------------------------------
\* RootCoord DDL tasks and replay (src/unnamed/part_001)
\* ------------------------------------------------------------------------
NumColls == 2    \* collection names
NumParts == 1    \* partition names besides the default partition

CollNames == 1..NumColls
PartNames == 1..NumParts
DdTypes == {"CreateCollection", "DropCollection", "CreatePartition",
            "DropPartition"}
NoDdOp == [type |-> "none", coll |-> 0, part |-> 0]

\* the request can be executed on the current metadata
DdApplicable(type, c, p) ==
  CASE type = "CreateCollection" -> c \notin collections /\ p = 0
    [] type = "DropCollection" -> c \in collections /\ p = 0
    [] type = "CreatePartition" ->
         c \in collections /\ p # 0 /\ <<c, p>> \notin partitions
    [] type = "DropPartition" -> <<c, p>> \in partitions
    [] OTHER -> FALSE

\* collections after the metadata mutation of the request
DdCollections(type, c) ==
  CASE type = "CreateCollection" -> collections \cup {c}
    [] type = "DropCollection" -> collections \ {c}
    [] OTHER -> collections

\* partitions after the metadata mutation of the request
DdPartitions(type, c, p) ==
  CASE type = "DropCollection" -> {q \in partitions : q[1] # c}
    [] type = "CreatePartition" -> partitions \cup {<<c, p>>}
    [] type = "DropPartition" -> partitions \ {<<c, p>>}
    [] OTHER -> partitions

\* DDL task, step 1: the metadata mutation, DdOperation and DdMsgSent =
\* false are written in one KV transaction
DdCommit(type, c, p) ==
  /\ rcPc = "started" /\ stateCode = "Healthy" /\ tPc = "idle"
  /\ DdApplicable(type, c, p)
  /\ collections' = DdCollections(type, c)
  /\ partitions' = DdPartitions(type, c, p)
  /\ ddOp' = [type |-> type, coll |-> c, part |-> p]
  /\ ddMsgSent' = "false"
  /\ pubDone' = FALSE
  /\ tPc' = "publish"
  /\ UNCHANGED <<nonDdVars, rcPc, replay, stateCode>>

\* DDL task, step 2: the message is published on the physical channels of
\* the collection; when that fails the task ends with an error
DdPublish(ok) ==
  /\ tPc = "publish"
  /\ pubDone' = ok
  /\ tPc' = IF ok THEN "flag" ELSE "idle"
  /\ UNCHANGED <<nonDdVars, collections, partitions, ddMsgSent, ddOp, rcPc,
                 replay, stateCode>>

\* Core.setDdMsgSendFlag(true) (part_001:388-405): the flag after the call
SetDdMsgSendFlag(kvOk) == IF kvOk THEN "true" ELSE ddMsgSent

\* DDL task, step 3: setDdMsgSendFlag(true)
DdSetFlag(kvOk) ==
  /\ tPc = "flag"
  /\ ddMsgSent' = SetDdMsgSendFlag(kvOk)
  /\ tPc' = "idle"
  /\ UNCHANGED <<nonDdVars, collections, partitions, ddOp, pubDone, rcPc,
                 replay, stateCode>>

\* the RootCoord process dies; what is in KV stays
Crash ==
  /\ rcPc # "stopped"
  /\ rcPc' = "stopped"
  /\ tPc' = "idle"
  /\ stateCode' = "Initializing"
  /\ replay' = "none"
  /\ pubDone' = FALSE
  /\ UNCHANGED <<nonDdVars, collections, partitions, ddMsgSent, ddOp>>

\* Core.Start (part_001:1081-1108): startOnce is entered
RcStart ==
  /\ rcPc = "stopped"
  /\ rcPc' = "start"
  /\ UNCHANGED <<nonDdVars, collections, partitions, ddMsgSent, ddOp, pubDone,
                 replay, stateCode, tPc>>

\* Start: proxyManager.WatchProxy; on error Start returns without the replay,
\* without the loops and without the Healthy state code
RcWatchProxy(ok) ==
  /\ rcPc = "start"
  /\ rcPc' = IF ok THEN "resend" ELSE "started"
  /\ UNCHANGED <<nonDdVars, collections, partitions, ddMsgSent, ddOp, pubDone,
                 replay, stateCode, tPc>>

\* reSendDdMsg (part_001:973-987): the flag and the DdOperation are loaded;
\* a load error, a missing key or the flag "true" end the replay with nil
RcReSendLoad(kvOk) ==
  /\ rcPc = "resend"
  /\ IF kvOk /\ ddMsgSent = "false"
     THEN /\ rcPc' = "resolve"
          /\ UNCHANGED <<replay, stateCode>>
     ELSE /\ rcPc' = "started"
          /\ replay' = IF kvOk THEN "nothing" ELSE "loadErr"
          /\ stateCode' = "Healthy"
  /\ UNCHANGED <<nonDdVars, collections, partitions, ddMsgSent, ddOp, pubDone,
                 tPc>>

\* reSendDdMsg: MetaTable.GetCollectionByName(ddReq.CollectionName, 0); an
\* unknown name ends the replay, and Start, with the error
RcResolve ==
  /\ rcPc = "resolve"
  /\ IF ddOp.coll \in collections
     THEN /\ rcPc' = "publish"
          /\ UNCHANGED replay
     ELSE /\ rcPc' = "started"
          /\ replay' = "resolveErr"
  /\ UNCHANGED <<nonDdVars, collections, partitions, ddMsgSent, ddOp, pubDone,
                 stateCode, tPc>>

\* the replay continues to setDdMsgSendFlag whatever the publish returned
RcPublishIgnoreError(ok) ==
  /\ rcPc = "publish"
  /\ pubDone' = ok
  /\ rcPc' = "setflag"
  /\ UNCHANGED <<nonDdVars, collections, partitions, ddMsgSent, ddOp, replay,
                 stateCode, tPc>>

\* reSendDdMsg: SendDd...Req of the recorded type; an error ends the replay
RcPublish(ok) ==
  /\ rcPc = "publish"
  /\ pubDone' = ok
  /\ IF ok
     THEN /\ rcPc' = "setflag"
          /\ UNCHANGED replay
     ELSE /\ rcPc' = "started"
          /\ replay' = "publishErr"
  /\ UNCHANGED <<nonDdVars, collections, partitions, ddMsgSent, ddOp,
                 stateCode, tPc>>

\* reSendDdMsg: return c.setDdMsgSendFlag(true) (part_001:1078); on success
\* Start goes on to the loops and the Healthy state code
RcSetFlag(kvOk) ==
  /\ rcPc = "setflag"
  /\ ddMsgSent' = SetDdMsgSendFlag(kvOk)
  /\ rcPc' = "started"
  /\ replay' = IF kvOk THEN "sent" ELSE "flagErr"
  /\ stateCode' = IF kvOk THEN "Healthy" ELSE stateCode
  /\ UNCHANGED <<nonDdVars, collections, partitions, ddOp, pubDone, tPc>>

InitDd ==
  /\ collections = {}
  /\ partitions = {}
  /\ ddMsgSent = "absent"
  /\ ddOp = NoDdOp
  /\ pubDone = FALSE
  /\ rcPc = "stopped"
  /\ replay = "none"
  /\ stateCode = "Initializing"
  /\ tPc = "idle"

\* ------------------------------------------------------------------------
\* RootCoord ID allocator (Core.Init, Core.AllocID, Core.tsLoop in part_001;
\* the GlobalIDAllocator itself follows the lease-and-serve contract)
\* ------------------------------------------------------------------------
IdBatch == 2     \* identifiers leased per KV write
MaxHigh == 6     \* leases stop at this high-water mark
MaxCount == 2    \* largest count of one AllocID request

NoAllocRet == [ok |-> FALSE, id |-> 0, count |-> 0]

\* the allocator as a record: persisted mark and in-memory lease
Gid == [high |-> gidHigh, cur |-> gidCur, end |-> gidEnd]

\* a new lease: the mark is raised in KV, then the lease is extended up to it
GidLease(g) == [g EXCEPT !.high = g.high + IdBatch, !.end = g.high + IdBatch]

\* GlobalIDAllocator.Initialize: serving restarts at the persisted mark, with
\* a fresh lease
GidInitialize(g) == GidLease([g EXCEPT !.cur = g.high, !.end = g.high])

\* GlobalIDAllocator.Alloc(count) needs a new lease
GidNeedsLease(g, count) == g.cur + count > g.end

\* GlobalIDAllocator.Alloc(count): the allocator after [cur, cur+count) is
\* served, a lease being taken first when the pool has no room
GidAlloc(g, count) ==
  LET l == IF GidNeedsLease(g, count) THEN GidLease(g) ELSE g
  IN [l EXCEPT !.cur = g.cur + count]

\* GlobalIDAllocator.UpdateID: top-off when less than half a batch remains
GidUpdate(g) == IF 2 * (g.end - g.cur) < IdBatch THEN GidLease(g) ELSE g

SetGid(g) ==
  /\ gidHigh' = g.high
  /\ gidCur' = g.cur
  /\ gidEnd' = g.end

\* a restart whose Init leaves the persisted mark as it was
RcRestartInitNoPersist(kvOk) ==
  /\ gidHigh + IdBatch <= MaxHigh
  /\ IF kvOk
     THEN /\ UNCHANGED gidHigh
          /\ gidCur' = gidHigh
          /\ gidEnd' = gidHigh + IdBatch
          /\ rcPc' = "stopped"
     ELSE /\ UNCHANGED gidHigh
          /\ gidCur' = 0
          /\ gidEnd' = 0
          /\ rcPc' = "initErr"
  /\ issuedProc' = {}
  /\ allocRet' = NoAllocRet
  /\ tPc' = "idle"
  /\ stateCode' = "Initializing"
  /\ replay' = "none"
  /\ pubDone' = FALSE
  /\ UNCHANGED <<nonRootVars, collections, partitions, ddMsgSent, ddOp,
                 issued>>

\* the process is replaced by a new one, which runs Core.Init (part_001:879-971);
\* the allocator is initialized there (914-917), and an error of Initialize is
\* the error of Init
RcRestartInit(kvOk) ==
  /\ gidHigh + IdBatch <= MaxHigh
  /\ IF kvOk
     THEN /\ SetGid(GidInitialize(Gid))
          /\ rcPc' = "stopped"
     ELSE /\ UNCHANGED gidHigh
          /\ gidCur' = 0
          /\ gidEnd' = 0
          /\ rcPc' = "initErr"
  /\ issuedProc' = {}
  /\ allocRet' = NoAllocRet
  /\ tPc' = "idle"
  /\ stateCode' = "Initializing"
  /\ replay' = "none"
  /\ pubDone' = FALSE
  /\ UNCHANGED <<nonRootVars, collections, partitions, ddMsgSent, ddOp,
                 issued>>

\* Core.AllocID (part_001:1763-1796)
AllocID(count, kvOk) ==
  /\ rcPc # "initErr"
  /\ IF stateCode # "Healthy"
     THEN /\ allocRet' = [ok |-> FALSE, id |-> 0, count |-> 0]
          /\ UNCHANGED <<gidHigh, gidCur, gidEnd, issued, issuedProc>>
     ELSE IF GidNeedsLease(Gid, count)
               /\ (~kvOk \/ gidHigh + IdBatch > MaxHigh)
     THEN /\ allocRet' = [ok |-> FALSE, id |-> 0, count |-> count]
          /\ UNCHANGED <<gidHigh, gidCur, gidEnd, issued, issuedProc>>
     ELSE /\ SetGid(GidAlloc(Gid, count))
          /\ allocRet' = [ok |-> TRUE, id |-> gidCur, count |-> count]
          /\ issued' = issued \cup (gidCur..(gidCur + count - 1))
          /\ issuedProc' = issuedProc \cup (gidCur..(gidCur + count - 1))
  /\ UNCHANGED <<nonRootVars, ddVars>>

\* Core.tsLoop (part_001:242-264): c.IDAllocatorUpdate() on every tick; an
\* error is logged
IDAllocatorUpdate(kvOk) ==
  /\ stateCode = "Healthy"
  /\ gidHigh + IdBatch <= MaxHigh
  /\ IF kvOk THEN SetGid(GidUpdate(Gid))
             ELSE UNCHANGED <<gidHigh, gidCur, gidEnd>>
  /\ UNCHANGED <<nonRootVars, ddVars, issued, issuedProc, allocRet>>

\* Core.Init on an empty KV store
InitAlloc ==
  /\ gidHigh = GidInitialize([high |-> 0, cur |-> 0, end |-> 0]).high
  /\ gidCur = GidInitialize([high |-> 0, cur |-> 0, end |-> 0]).cur
  /\ gidEnd = GidInitialize([high |-> 0, cur |-> 0, end |-> 0]).end
  /\ issued = {}
  /\ issuedProc = {}
  /\ allocRet = NoAllocRet

\* ------------------------------------------------------------------------
\* Lifecycle of the coordinators: session loss and shutdown
\* ------------------------------------------------------------------------
\* the five goroutines of Server.startServerLoop (server.go:243-251)
DcLoops == {"stats", "tt", "watch", "active", "flush"}

\* callers of Server.Stop: the active-check loop and the owner of the server
Stoppers == {"active", "owner"}

\* Server.Start (server.go:159-161): the loops run, the state becomes Healthy
DcStart ==
  /\ isServing = "Initializing"
  /\ isServing' = "Healthy"
  /\ UNCHANGED <<nonLifeVars, dcCancelled, activeCh, dcLoop, dcStop, rcSess, icSess,
                 icCancelled, icStateCode>>

\* the lease of DataCoord's session is lost: activeCh is closed
ActiveChClose ==
  /\ activeCh = "open"
  /\ activeCh' = "closed"
  /\ UNCHANGED <<nonLifeVars, isServing, dcCancelled, dcLoop, dcStop, rcSess, icSess,
                 icCancelled, icStateCode>>

\* startStatsChannel / startDataNodeTtLoop (server.go:264-270, 304-310):
\* the non-blocking check of ctx.Done before Consume
StreamSelect(l) ==
  /\ l \in {"stats", "tt"}
  /\ dcLoop[l] = "select"
  /\ dcLoop' = [dcLoop EXCEPT ![l] = IF dcCancelled THEN "done" ELSE "consume"]
  /\ UNCHANGED <<nonLifeVars, isServing, dcCancelled, activeCh, dcStop, rcSess, icSess,
                 icCancelled, icStateCode>>

\* server.go:271-274, 311-314: Consume returns a pack, which is handled, or
\* nil once the stream's context is cancelled
StreamConsume(l, pack) ==
  /\ dcLoop[l] = "consume"
  /\ ~pack => dcCancelled
  /\ dcLoop' = [dcLoop EXCEPT ![l] = IF pack THEN "select" ELSE "done"]
  /\ UNCHANGED <<nonLifeVars, isServing, dcCancelled, activeCh, dcStop, rcSess, icSess,
                 icCancelled, icStateCode>>

\* startWatchService / startFlushLoop (server.go:356-361, 415-419): the
\* ctx.Done case of the select
LoopDone(l) ==
  /\ l \in {"watch", "flush"}
  /\ dcLoop[l] = "select"
  /\ dcCancelled
  /\ dcLoop' = [dcLoop EXCEPT ![l] = "done"]
  /\ UNCHANGED <<nonLifeVars, isServing, dcCancelled, activeCh, dcStop, rcSess, icSess,
                 icCancelled, icStateCode>>

\* startActiveCheck (server.go:388-406): activeCh is closed, Stop is called;
\* or ctx.Done, the loop returns
StartActiveCheck ==
  /\ dcLoop["active"] = "select"
  /\ \/ /\ activeCh = "closed"
        /\ dcLoop' = [dcLoop EXCEPT !["active"] = "stop"]
     \/ /\ dcCancelled
        /\ dcLoop' = [dcLoop EXCEPT !["active"] = "done"]
  /\ UNCHANGED <<nonLifeVars, isServing, dcCancelled, activeCh, dcStop, rcSess, icSess,
                 icCancelled, icStateCode>>

\* Server.Stop (server.go:473-482) up to serverLoopCancel (490): nothing is
\* done unless the state is Healthy
Stop(who) ==
  /\ dcStop[who] = "idle"
  /\ who = "active" => dcLoop["active"] = "stop"
  /\ IF isServing = "Healthy"
     THEN /\ isServing' = "Stopped"
          /\ dcCancelled' = TRUE
          /\ dcStop' = [dcStop EXCEPT ![who] = "wait"]
     ELSE /\ dcStop' = [dcStop EXCEPT ![who] = "returned"]
          /\ UNCHANGED <<isServing, dcCancelled>>
  /\ UNCHANGED <<nonLifeVars, activeCh, dcLoop, rcSess, icSess, icCancelled,
                 icStateCode>>

\* stopServerLoop (server.go:489-492): serverLoopWg.Wait returns when each
\* of the five loops has run its deferred Done
StopServerLoop(who) ==
  /\ dcStop[who] = "wait"
  /\ \A l \in DcLoops : dcLoop[l] = "done"
  /\ dcStop' = [dcStop EXCEPT ![who] = "returned"]
  /\ UNCHANGED <<nonLifeVars, isServing, dcCancelled, activeCh, dcLoop, rcSess, icSess,
                 icCancelled, icStateCode>>

\* startActiveCheck (server.go:398-400): Stop has returned, the loop returns
ActiveReturn ==
  /\ dcLoop["active"] = "stop"
  /\ dcStop["active"] = "returned"
  /\ dcLoop' = [dcLoop EXCEPT !["active"] = "done"]
  /\ UNCHANGED <<nonLifeVars, isServing, dcCancelled, activeCh, dcStop, rcSess, icSess,
                 icCancelled, icStateCode>>

\* the lease of RootCoord's session is lost: sessCloseCh is closed
RcSessClose ==
  /\ rcSess = "open"
  /\ rcSess' = "closed"
  /\ UNCHANGED <<nonLifeVars, isServing, dcCancelled, activeCh, dcLoop, dcStop, icSess,
                 icCancelled, icStateCode>>

\* Core.sessionLoop (part_001:266-282): the exit goroutine is started
SessionLoop ==
  /\ rcSess = "closed"
  /\ rcSess' = "exiting"
  /\ UNCHANGED <<nonLifeVars, isServing, dcCancelled, activeCh, dcLoop, dcStop, icSess,
                 icCancelled, icStateCode>>

\* part_001:274-277: os.Exit after one second
RcExit ==
  /\ rcSess = "exiting"
  /\ rcSess' = "exited"
  /\ UNCHANGED <<nonLifeVars, isServing, dcCancelled, activeCh, dcLoop, dcStop, icSess,
                 icCancelled, icStateCode>>

\* the lease of IndexCoord's session is lost; IndexCoord.Register
\* (part_000:251-256) does not keep the channel session.Init returns
IcSessClose ==
  /\ icSess = "open"
  /\ icSess' = "closed"
  /\ UNCHANGED <<nonLifeVars, isServing, dcCancelled, activeCh, dcLoop, dcStop, rcSess,
                 icCancelled, icStateCode>>

\* IndexCoord.Stop (part_000:359-365): loopCtx is cancelled
IcStop ==
  /\ ~icCancelled
  /\ icCancelled' = TRUE
  /\ UNCHANGED <<nonLifeVars, isServing, dcCancelled, activeCh, dcLoop, dcStop, rcSess,
                 icSess, icStateCode>>

\* assignmentTasksLoop (part_000:634-637): the ctx.Done case of the select
AssignExit ==
  /\ aPc = "idle"
  /\ icCancelled
  /\ aPc' = "exited"
  /\ UNCHANGED <<nonIdxVars, indexMeta, assignChan, nodeClients, nodeTasks, eventChan,
                 watchChan, nextBuildID, pc, callReq, callID, ret, aBatch, aNode,
                 wPc, wNode, wTasks, alive, nodeJob>>

\* watchNodeLoop (part_000:691-694): the ctx.Done case of the select
WatchNodeExit ==
  /\ wPc = "idle"
  /\ icCancelled
  /\ wPc' = "exited"
  /\ UNCHANGED <<nonIdxVars, indexMeta, assignChan, nodeClients, nodeTasks, eventChan,
                 watchChan, nextBuildID, pc, callReq, callID, ret, aPc, aBatch,
                 aNode, wNode, wTasks, alive, nodeJob>>

\* the IndexCoord process is replaced: NewIndexCoord (part_000:237-248)
\* stores Abnormal, Init (257-280) loads the meta table from the KV; the
\* channels, the task sets and the calls in progress of the old process
\* are gone, the loops are not started yet
IcRestart ==
  /\ icStateCode' = "Abnormal"
  /\ icCancelled' = FALSE
  /\ icSess' = "open"
  /\ assignChan' = <<>>
  /\ nodeClients' = [n \in {} |-> 0]
  /\ nodeTasks' = [n \in Nodes |-> {}]
  /\ eventChan' = <<>>
  /\ watchChan' = <<>>
  /\ pc' = [c \in Callers |-> "idle"]
  /\ callReq' = [c \in Callers |-> "none"]
  /\ callID' = [c \in Callers |-> 0]
  /\ aPc' = "exited"
  /\ aBatch' = <<>>
  /\ aNode' = NoNode
  /\ wPc' = "exited"
  /\ wNode' = NoNode
  /\ wTasks' = <<>>
  /\ UNCHANGED <<metaVars, clusterVars, ddVars, allocVars, segIdxVars, lockVars, auxVars>>
  /\ UNCHANGED <<isServing, dcCancelled, activeCh, dcLoop, dcStop, rcSess>>
  /\ UNCHANGED <<indexMeta, nextBuildID, ret, alive, nodeJob>>

\* the rest of Init (part_000:282-330): the scheduler is created, Healthy is
\* stored, the workers with a session are registered; Start (332-357)
\* starts the loops
IcInitDone ==
  /\ icStateCode = "Abnormal"
  /\ icStateCode' = "Healthy"
  /\ nodeClients' = [n \in {k \in Nodes : alive[k]} |-> 0]
  /\ aPc' = "idle"
  /\ wPc' = "idle"
  /\ UNCHANGED <<metaVars, clusterVars, ddVars, allocVars, segIdxVars, lockVars, auxVars>>
  /\ UNCHANGED <<isServing, dcCancelled, activeCh, dcLoop, dcStop, rcSess, icSess,
                 icCancelled>>
  /\ UNCHANGED <<indexMeta, assignChan, nodeTasks, eventChan, watchChan,
                 nextBuildID, pc, callReq, callID, ret, aBatch, aNode, wNode,
                 wTasks, alive, nodeJob>>

InitLife ==
  /\ isServing = "Initializing"
  /\ dcCancelled = FALSE
  /\ activeCh = "open"
  /\ dcLoop = [l \in DcLoops |-> "select"]
  /\ dcStop = [w \in Stoppers |-> "idle"]
  /\ rcSess = "open"
  /\ icSess = "open"
  /\ icCancelled = FALSE
  /\ icStateCode = "Healthy"

\* ------------------------------------------------------------------------
\* DataCoord: the meta lock and the Cluster mutex
\* ------------------------------------------------------------------------
\* goroutines that call the meta operations (RPC handlers, server loops)
MetaCallers == {"rpc1", "rpc2"}

\* Cluster.handleNodeEvent and the handleEvent loop of a data node
Goroutines == MetaCallers \cup {"nodeEvent", "event"}

\* meta.AddSegment / SetRowCount / DropSegment / SetState (meta.go:96-151)
MetaOps == {"AddSegment", "SetRowCount", "DropSegment", "SetState"}

\* Cluster.handleRegister / handleUnRegister / handleWatchChannel
ClusterOps == {"handleRegister", "handleUnRegister", "handleWatchChannel"}

NoGoroutine == "none"

\* the positions at which a goroutine is inside a KV call or a worker RPC
InIO == {"kv", "rpc"}

\* m.Lock() and the change of m.segments (meta.go:97-99, 107-109, 127-130,
\* 144-146)
MetaLock(g, op) ==
  /\ g \in MetaCallers
  /\ gPc[g] = "idle"
  /\ mu["meta"] = NoGoroutine
  /\ mu' = [mu EXCEPT !["meta"] = g]
  /\ gPc' = [gPc EXCEPT ![g] = "locked"]
  /\ gOp' = [gOp EXCEPT ![g] = op]
  /\ UNCHANGED nonLockVars

\* saveSegmentInfo / removeSegmentInfo (meta.go:100, 111, 131, 148): the
\* call of client.Save or client.Remove is issued
MetaSave(g) ==
  /\ g \in MetaCallers
  /\ gPc[g] = "locked"
  /\ gPc' = [gPc EXCEPT ![g] = "kv"]
  /\ UNCHANGED <<nonLockVars, mu, gOp>>

\* the operation returns, the deferred m.Unlock() runs: after the KV call
\* or, for SetRowCount and SetState of an unknown segment (meta.go:110-113,
\* 147-150), without one
MetaReturn(g) ==
  /\ g \in MetaCallers
  /\ \/ gPc[g] = "kv"
     \/ gPc[g] = "locked" /\ gOp[g] \in {"SetRowCount", "SetState"}
  /\ mu' = [mu EXCEPT !["meta"] = NoGoroutine]
  /\ gPc' = [gPc EXCEPT ![g] = "idle"]
  /\ gOp' = [gOp EXCEPT ![g] = "none"]
  /\ UNCHANGED nonLockVars

\* c.mu.Lock() and the policy of a Cluster handler (part_005:338-343,
\* 356-374, 386-398)
ClusterLock(op) ==
  /\ gPc["nodeEvent"] = "idle"
  /\ mu["cluster"] = NoGoroutine
  /\ mu' = [mu EXCEPT !["cluster"] = "nodeEvent"]
  /\ gPc' = [gPc EXCEPT !["nodeEvent"] = "locked"]
  /\ gOp' = [gOp EXCEPT !["nodeEvent"] = op]
  /\ UNCHANGED nonLockVars

\* c.txnSaveNodesAndBuffer (part_005:346, 375, 399): kv.MultiSave is issued
ClusterTxnSave ==
  /\ gPc["nodeEvent"] = "locked"
  /\ gPc' = [gPc EXCEPT !["nodeEvent"] = "kv"]
  /\ UNCHANGED <<nonLockVars, mu, gOp>>

\* SetNode and c.mu.Unlock() (part_005:347-350, 376-379, 400-403), after
\* the transaction or, with nothing to save (501-504) or an unknown node
\* (358-361), without one
ClusterUnlock ==
  /\ gPc["nodeEvent"] \in {"locked", "kv"}
  /\ mu' = [mu EXCEPT !["cluster"] = NoGoroutine]
  /\ gPc' = [gPc EXCEPT !["nodeEvent"] = "watch"]
  /\ UNCHANGED <<nonLockVars, gOp>>

\* c.watch for the nodes returned (part_005:351-353, 380-382, 404-406)
ClusterWatch ==
  /\ gPc["nodeEvent"] = "watch"
  /\ gPc' = [gPc EXCEPT !["nodeEvent"] = "idle"]
  /\ gOp' = [gOp EXCEPT !["nodeEvent"] = "none"]
  /\ UNCHANGED <<nonLockVars, mu>>

\* Cluster.handleEvent, Watch event (part_005:243-245): WatchDmChannels is
\* issued
EventRPC ==
  /\ gPc["event"] = "idle"
  /\ gPc' = [gPc EXCEPT !["event"] = "rpc"]
  /\ gOp' = [gOp EXCEPT !["event"] = "handleEvent"]
  /\ UNCHANGED <<nonLockVars, mu>>

\* part_005:249-252: the RPC has returned; c.mu.Lock(), SetWatched
EventLock ==
  /\ gPc["event"] = "rpc"
  /\ mu["cluster"] = NoGoroutine
  /\ mu' = [mu EXCEPT !["cluster"] = "event"]
  /\ gPc' = [gPc EXCEPT !["event"] = "locked"]
  /\ UNCHANGED <<nonLockVars, gOp>>

\* part_005:252-253: c.mu.Unlock(); saveNode issues kv.Save
EventSaveNode ==
  /\ gPc["event"] = "locked"
  /\ mu' = [mu EXCEPT !["cluster"] = NoGoroutine]
  /\ gPc' = [gPc EXCEPT !["event"] = "kv"]
  /\ UNCHANGED <<nonLockVars, gOp>>

\* part_005:253-256: saveNode has returned
EventDone ==
  /\ gPc["event"] = "kv"
  /\ gPc' = [gPc EXCEPT !["event"] = "idle"]
  /\ gOp' = [gOp EXCEPT !["event"] = "none"]
  /\ UNCHANGED <<nonLockVars, mu>>

InitLock ==
  /\ mu = [l \in {"meta", "cluster"} |-> NoGoroutine]
  /\ gPc = [g \in Goroutines |-> "idle"]
  /\ gOp = [g \in Goroutines |-> "none"]

\* ------------------------------------------------------------------------
\* IndexCoord: DropIndex and the recycler (part_000:515-539, 586-624)
\* ------------------------------------------------------------------------
MaxDrops == 2    \* DropIndex calls per index-id

Versions == 1..MaxVersion

\* rows found in KV when IndexCoord starts: builds that finished at some
\* version, dropped or not; the blob store holds the files of that version
\* and possibly of older ones
LoadedRows ==
  {NoRow} \cup [exists : {TRUE}, req : Reqs, state : {"Finished"},
                version : Versions, nodeID : {1}, markDeleted : BOOLEAN]
LoadedFiles(row) ==
  IF row.exists
  THEN {F \in SUBSET (1..row.version) : row.version \in F}
  ELSE {{}}

\* IndexCoord.Init (part_000:261-280): NewMetaTable loads the rows from KV
ReloadMeta(m, f) ==
  /\ ~metaLoaded
  /\ m \in [BuildIDs -> LoadedRows]
  /\ \A b \in BuildIDs : f[b] \in LoadedFiles(m[b])
  /\ indexMeta' = m
  /\ indexFiles' = f
  /\ metaLoaded' = TRUE
  /\ UNCHANGED <<nonAuxVars, tickVars, storeVars, ttVars, recycled, dropStatus, dropCalls,
                 jobVersion,
                 assignChan, nodeClients, nodeTasks, eventChan, watchChan,
                 nextBuildID, pc, callReq, callID, ret, aPc, aBatch, aNode,
                 wPc, wNode, wTasks, alive, nodeJob>>

\* IndexCoord.DropIndex (part_000:515-539) with the status it returns:
\* MarkIndexAsDeleted, then Success; the IndexAddTasks of the index that
\* wait in the add queue are removed
DropIndexReturn(ix) ==
  LET removed == {c \in Callers :
                    pc[c] = "enqueued" /\ IndexIDOf(callReq[c]) = ix}
  IN /\ metaLoaded
     /\ dropCalls[ix] < MaxDrops
     /\ indexMeta' = MarkIndexAsDeleted(ix)
     /\ dropStatus' = "Success"
     /\ dropCalls' = [dropCalls EXCEPT ![ix] = @ + 1]
     /\ pc' = [c \in Callers |-> IF c \in removed THEN "idle" ELSE pc[c]]
     /\ callReq' = [c \in Callers |->
                      IF c \in removed THEN "none" ELSE callReq[c]]
     /\ callID' = [c \in Callers |-> IF c \in removed THEN 0 ELSE callID[c]]
     /\ ret' = IF removed # {}
               THEN Failure(callReq[CHOOSE c \in removed : TRUE])
               ELSE ret
     /\ UNCHANGED <<nonAuxVars, tickVars, storeVars, ttVars, indexFiles, recycled,
                    jobVersion,
                    metaLoaded, assignChan, nodeClients, nodeTasks, eventChan,
                    watchChan, nextBuildID, aPc, aBatch, aNode, wPc, wNode,
                    wTasks, alive, nodeJob>>

\* metaTable.GetUnusedIndexFiles: the rows marked deleted, and the rows of
\* version 2 or more that are not recycled yet
GetUnusedIndexFiles ==
  {b \in BuildIDs :
     /\ indexMeta[b].exists
     /\ \/ indexMeta[b].markDeleted
        \/ (indexMeta[b].version >= 2 /\ b \notin recycled)}

\* metaTable.DeleteIndex(indexBuildID)
DeleteIndex(b) == [indexMeta EXCEPT ![b] = NoRow]

\* recycleUnusedIndexFiles, a row marked deleted (part_000:601-607):
\* RemoveWithPrefix(build-id) leaves the versions in left (an error when left
\* is not empty, which is logged), then the row is deleted
RecycleMarkDeleted(b, left) ==
  /\ b \in GetUnusedIndexFiles
  /\ indexMeta[b].markDeleted
  /\ left \subseteq indexFiles[b]
  /\ indexFiles' = [indexFiles EXCEPT ![b] = left]
  /\ indexMeta' = DeleteIndex(b)
  /\ recycled' = recycled \ {b}
  /\ UNCHANGED <<nonAuxVars, tickVars, storeVars, ttVars, metaLoaded, dropStatus, dropCalls,
                 jobVersion,
                 assignChan, nodeClients, nodeTasks, eventChan, watchChan,
                 nextBuildID, pc, callReq, callID, ret, aPc, aBatch, aNode,
                 wPc, wNode, wTasks, alive, nodeJob>>

\* the loop over the versions runs up to the version itself
RecycleUpToVersion(b, failed, ok) ==
  /\ b \in GetUnusedIndexFiles
  /\ ~indexMeta[b].markDeleted
  /\ failed \subseteq (1..(indexMeta[b].version - 1)) \cap indexFiles[b]
  /\ indexFiles' = [indexFiles EXCEPT
                      ![b] = {j \in @ : j > indexMeta[b].version \/ j \in failed}]
  /\ recycled' = IF ok THEN recycled \cup {b} ELSE recycled
  /\ UNCHANGED <<nonAuxVars, idxVars, tickVars, storeVars, ttVars, metaLoaded, dropStatus,
                 dropCalls, jobVersion>>

\* recycleUnusedIndexFiles, a row not marked deleted (part_000:608-619):
\* RemoveWithPrefix(build-id/j) for every j below the version, the removals
\* of failed returning an error; then UpdateRecycleState, whose error is
\* logged
RecycleOldVersions(b, failed, ok) ==
  /\ b \in GetUnusedIndexFiles
  /\ ~indexMeta[b].markDeleted
  /\ failed \subseteq (1..(indexMeta[b].version - 1)) \cap indexFiles[b]
  /\ indexFiles' = [indexFiles EXCEPT
                      ![b] = {j \in @ : j >= indexMeta[b].version \/ j \in failed}]
  /\ recycled' = IF ok THEN recycled \cup {b} ELSE recycled
  /\ UNCHANGED <<nonAuxVars, idxVars, tickVars, storeVars, ttVars, metaLoaded, dropStatus,
                 dropCalls, jobVersion>>

\* lines 654-677 with the request's Version (659): meta.indexMeta.Version + 1
\* of the meta read at 640, the version UpdateVersion has persisted at 645;
\* the worker that accepts the request builds that version
AssignCreateIndex ==
  /\ aPc = "assign"
  /\ alive[aNode]
  /\ nodeTasks' = [nodeTasks EXCEPT ![aNode] = @ \cup {Head(aBatch)}]
  /\ nodeJob' = [nodeJob EXCEPT ![aNode] = @ \cup {Head(aBatch)}]
  /\ jobVersion' = [jobVersion EXCEPT ![Head(aBatch)] = indexMeta[Head(aBatch)].version]
  /\ indexMeta' = MetaBuildIndex(indexMeta, Head(aBatch), aNode)
  /\ nodeClients' = IncPriority(nodeClients, aNode)
  /\ Continue(Tail(aBatch))
  /\ UNCHANGED <<nonAuxVars, tickVars, storeVars, ttVars, indexFiles, recycled,
                 metaLoaded, dropStatus, dropCalls, assignChan, eventChan,
                 watchChan, nextBuildID, pc, callReq, callID, ret, wPc, wNode,
                 wTasks, alive>>

\* a worker that builds b writes the index files of the request's version
\* under build-id/version
NodeSaveIndexFiles(n, b) ==
  /\ b \in nodeJob[n]
  /\ jobVersion[b] \notin indexFiles[b]
  /\ indexFiles' = [indexFiles EXCEPT ![b] = @ \cup {jobVersion[b]}]
  /\ UNCHANGED <<nonAuxVars, idxVars, tickVars, storeVars, ttVars, recycled, metaLoaded,
                 dropStatus, dropCalls, jobVersion>>

\* a worker that has written the files of b reports Finished in the meta row
NodeFinish(n, b) ==
  /\ b \in nodeJob[n]
  /\ jobVersion[b] \in indexFiles[b]
  /\ indexMeta[b].exists
  /\ Len(watchChan) < Cardinality(BuildIDs)
  /\ indexMeta' = [indexMeta EXCEPT ![b].state = "Finished"]
  /\ nodeJob' = [nodeJob EXCEPT ![n] = @ \ {b}]
  /\ watchChan' = Append(watchChan, [id |-> b, state |-> "Finished"])
  /\ UNCHANGED <<nonIdxVars, assignChan, nodeClients, nodeTasks, eventChan,
                 nextBuildID, pc, callReq, callID, ret, aPc, aBatch, aNode,
                 wPc, wNode, wTasks, alive>>

InitRec ==
  /\ indexFiles = [b \in BuildIDs |-> {}]
  /\ recycled = {}
  /\ metaLoaded = FALSE
  /\ dropStatus = "none"
  /\ dropCalls = [ix \in IndexIDs |-> 0]
  /\ jobVersion = [b \in BuildIDs |-> 0]

\* ------------------------------------------------------------------------
\* tsLoop of RootCoord (part_001:242-264) and of IndexCoord (part_000:565-584)
\* ------------------------------------------------------------------------
MaxTicks == 3    \* ticks of each tsoTicker

\* Core.tsLoop, case tsoTicker.C: TSOAllocatorUpdate, and on an error
\* continue; then IDAllocatorUpdate, whose error is logged
RcTsTick(tsoOk, idOk) ==
  /\ rcTsPc = "select"
  /\ rcTicks < MaxTicks
  /\ rcTicks' = rcTicks + 1
  /\ idUpdates' = IF tsoOk THEN idUpdates + 1 ELSE idUpdates
  /\ IF tsoOk /\ idOk /\ gidHigh + IdBatch <= MaxHigh
     THEN SetGid(GidUpdate(Gid))
     ELSE UNCHANGED <<gidHigh, gidCur, gidEnd>>
  /\ UNCHANGED <<idxVars, metaVars, clusterVars, ddVars, segIdxVars, lifeVars,
                 lockVars, recVars, storeVars, ttVars, issued, issuedProc, allocRet,
                 icUpdates, rcTsPc, icTsPc, rcCancelled>>

\* Core.Stop (part_001:1109-1113): the context is cancelled
CoreStop ==
  /\ ~rcCancelled
  /\ rcCancelled' = TRUE
  /\ stateCode' = "Abnormal"
  /\ UNCHANGED <<idxVars, metaVars, clusterVars, allocVars, segIdxVars, lifeVars,
                 lockVars, recVars, storeVars, ttVars, collections, partitions,
                 ddMsgSent, ddOp, pubDone, rcPc, replay, tPc, rcTicks,
                 idUpdates, icUpdates, rcTsPc, icTsPc>>

\* Core.tsLoop, case ctx.Done
RcTsExit ==
  /\ rcTsPc = "select"
  /\ rcCancelled
  /\ rcTsPc' = "returned"
  /\ UNCHANGED <<idxVars, nonAuxVars, recVars, storeVars, ttVars, rcTicks, idUpdates,
                 icUpdates, icTsPc, rcCancelled>>

\* IndexCoord.tsLoop, case tsoTicker.C: UpdateID, and on an error return
IcTsTick(ok) ==
  /\ icTsPc = "select"
  /\ icUpdates < MaxTicks
  /\ icUpdates' = icUpdates + 1
  /\ icTsPc' = IF ok THEN "select" ELSE "returned"
  /\ UNCHANGED <<idxVars, nonAuxVars, recVars, storeVars, ttVars, rcTicks, idUpdates,
                 rcTsPc, rcCancelled>>

\* IndexCoord.tsLoop, case ctx.Done
IcTsExit ==
  /\ icTsPc = "select"
  /\ icCancelled
  /\ icTsPc' = "returned"
  /\ UNCHANGED <<idxVars, nonAuxVars, recVars, storeVars, ttVars, rcTicks, idUpdates,
                 icUpdates, rcTsPc, rcCancelled>>

InitTick ==
  /\ rcTicks = 0
  /\ idUpdates = 0
  /\ icUpdates = 0
  /\ rcTsPc = "select"
  /\ icTsPc = "select"
  /\ rcCancelled = FALSE

\* ------------------------------------------------------------------------
\* DataCoord meta as a store of segments (meta.go:96-151, 217-280)
\* ------------------------------------------------------------------------
NumStoreSegs == 2   \* segment ids of the store
NumMetaColls == 2   \* collection ids
NumMetaParts == 2   \* partition ids

StoreIDs == 1..NumStoreSegs
MetaColls == 1..NumMetaColls
MetaParts == 1..NumMetaParts

\* datapb.SegmentInfo: ID, CollectionID, PartitionID, State
SegInfos == [id : StoreIDs, coll : MetaColls, part : MetaParts,
             state : SegStates]
\* a nil *SegmentInfo
NoInfo == [id |-> 0, coll |-> 0, part |-> 0, state |-> "None"]

\* SegmentsInfo.SetSegment / DropSegment / SetState / GetSegments
StoreSetSegment(segs, id, info) == [segs EXCEPT ![id] = info]
StoreDropSegment(segs, id) == [segs EXCEPT ![id] = NoInfo]
StoreSetState(segs, id, st) ==
  IF segs[id] # NoInfo THEN [segs EXCEPT ![id].state = st] ELSE segs
StoreGetSegments(segs) == {segs[id] : id \in StoreIDs} \ {NoInfo}

\* meta.GetSegment (meta.go:137-141)
GetSegment(segs, id) == segs[id]

\* meta.GetSegmentsOfCollection (meta.go:217-228): the ids, in no order
GetSegmentsOfCollection(segs, c) ==
  {info.id : info \in {i \in StoreGetSegments(segs) : i.coll = c}}

\* the partition id alone is compared
GetSegmentsOfPartitionAnyColl(segs, c, p) ==
  {info.id : info \in {i \in StoreGetSegments(segs) : i.part = p}}

\* meta.GetSegmentsOfPartition (meta.go:230-241)
GetSegmentsOfPartition(segs, c, p) ==
  {info.id : info \in {i \in StoreGetSegments(segs) :
                         i.coll = c /\ i.part = p}}

\* the two tests joined by or
GetUnFlushedSegmentsOr(segs) ==
  {info \in StoreGetSegments(segs) :
     info.state # "Flushing" \/ info.state # "Flushed"}

\* meta.GetUnFlushedSegments (meta.go:256-267)
GetUnFlushedSegments(segs) ==
  {info \in StoreGetSegments(segs) :
     info.state # "Flushing" /\ info.state # "Flushed"}

\* meta.GetFlushingSegments (meta.go:269-280)
GetFlushingSegments(segs) ==
  {info \in StoreGetSegments(segs) : info.state = "Flushing"}

\* the record of a call: operation, segment id, SegmentInfo argument, whether
\* an error was returned, and the segments returned
Op(op, id, info, err, res) ==
  [op |-> op, id |-> id, seg |-> info, err |-> err, res |-> res]

\* meta.AddSegment (meta.go:96-104) of a segment whose id the allocator has
\* just handed out
MetaAddSegment(info, ok) ==
  /\ info.id = mNextID
  /\ mSegs' = StoreSetSegment(mSegs, info.id, info)
  /\ mKv' = IF ok THEN mKv \cup {info.id} ELSE mKv
  /\ mNextID' = mNextID + 1
  /\ mOp' = Op("AddSegment", info.id, info, ~ok, {})
  /\ UNCHANGED <<idxVars, nonAuxVars, recVars, tickVars, ttVars>>

\* meta.DropSegment (meta.go:126-135)
MetaDropSegment(id, ok) ==
  /\ mSegs' = StoreDropSegment(mSegs, id)
  /\ mKv' = IF ok /\ GetSegment(mSegs, id) # NoInfo THEN mKv \ {id} ELSE mKv
  /\ mOp' = Op("DropSegment", id, NoInfo, ~ok, {})
  /\ UNCHANGED <<idxVars, nonAuxVars, recVars, tickVars, ttVars, mNextID>>

\* meta.SetState (meta.go:143-151)
MetaSetState(id, st, ok) ==
  /\ mSegs' = StoreSetState(mSegs, id, st)
  /\ mKv' = IF ok /\ GetSegment(mSegs', id) # NoInfo THEN mKv \cup {id} ELSE mKv
  /\ mOp' = Op("SetState", id, NoInfo,
               GetSegment(mSegs', id) # NoInfo /\ ~ok, {})
  /\ UNCHANGED <<idxVars, nonAuxVars, recVars, tickVars, ttVars, mNextID>>

\* a call of meta.GetUnFlushedSegments
MetaGetUnFlushedSegments ==
  /\ mOp' = Op("GetUnFlushedSegments", 0, NoInfo, FALSE,
               GetUnFlushedSegments(mSegs))
  /\ UNCHANGED <<idxVars, nonAuxVars, recVars, tickVars, ttVars, mSegs, mKv, mNextID>>

\* a call of meta.GetFlushingSegments
MetaGetFlushingSegments ==
  /\ mOp' = Op("GetFlushingSegments", 0, NoInfo, FALSE,
               GetFlushingSegments(mSegs))
  /\ UNCHANGED <<idxVars, nonAuxVars, recVars, tickVars, ttVars, mSegs, mKv, mNextID>>

\* newMeta on an empty KV store
InitStore ==
  /\ mSegs = [id \in StoreIDs |-> NoInfo]
  /\ mKv = {}
  /\ mNextID = 1
  /\ mOp = Op("none", 0, NoInfo, FALSE, {})

\* ------------------------------------------------------------------------
\* DataCoord: the data-node time-tick loop (server.go:314-350) and the Flush
\* events of the Cluster (part_005:409-452, 256-267)
\* ------------------------------------------------------------------------
\* SegmentInfo.InsertChannel of the segment
InsertChannel(id) == ((id - 1) % NumChannels) + 1

\* the segment ids of the Flush events of a channel
FlushPending(q) ==
  UNION {q[i].segs : i \in {j \in 1..Len(q) : q[j].type = "Flush"}}

\* server.go:326-349: GetFlushableSegments marks a sealed segment Flushing
\* and returns it, unless it fails; the segment is passed to cluster.Flush
StartDataNodeTtLoop(id, ok) ==
  /\ segments[id].exists /\ segments[id].state = "Sealed"
  /\ ok => Len(cEventCh) < ClusterEventChCap
  /\ SetState(id, "Flushing", ok)
  /\ ttReturned' = IF ok THEN ttReturned \cup {id} ELSE ttReturned
  /\ cEventCh' = IF ok
                 THEN Append(cEventCh, [type |-> "Flush", segs |-> {id}])
                 ELSE cEventCh
  /\ UNCHANGED <<idxVars, ddVars, allocVars, segIdxVars, lifeVars, lockVars,
                 recVars, tickVars, storeVars, kvBinlogs, flushCh, nextSegID,
                 fPc, fSeg, clusterNodes, chanBuffer, kvNodes, kvBuffer,
                 dnEventCh, online, acked, flushSent>>

\* Cluster.handleFlush (part_005:409-452): the segments are grouped by
\* channel; a Flush event goes to a node that has the channel, the segments
\* of a channel no node has are skipped
HandleFlush ==
  /\ cEventCh # <<>> /\ Head(cEventCh).type = "Flush"
  /\ cEventCh' = Tail(cEventCh)
  /\ LET segs == Head(cEventCh).segs
         owners == {n \in GetNodes(clusterNodes) :
                      \E id \in segs :
                         clusterNodes[n].chans[InsertChannel(id)] # "None"}
     IN IF owners = {}
        THEN UNCHANGED dnEventCh
        ELSE \E n \in owners :
               /\ Len(dnEventCh[n]) < DnEventChCap
               /\ dnEventCh' = [dnEventCh EXCEPT
                                  ![n] = Append(@, [type |-> "Flush",
                                                    segs |-> segs])]
  /\ UNCHANGED <<nonClusterVars, clusterNodes, chanBuffer, kvNodes, kvBuffer,
                 online, acked>>

\* Cluster.handleEvent, Flush event (part_005:256-267): FlushSegments is
\* called on the node; its failure is logged
HandleFlushEvent(n, rpcOk) ==
  /\ dnEventCh[n] # <<>> /\ Head(dnEventCh[n]).type = "Flush"
  /\ dnEventCh' = [dnEventCh EXCEPT ![n] = Tail(@)]
  /\ flushSent' = IF rpcOk THEN flushSent \cup Head(dnEventCh[n]).segs
                  ELSE flushSent
  /\ UNCHANGED <<idxVars, metaVars, ddVars, allocVars, segIdxVars, lifeVars,
                 lockVars, recVars, tickVars, storeVars, clusterNodes,
                 chanBuffer, kvNodes, kvBuffer, cEventCh, online, acked,
                 ttReturned>>

InitTt ==
  /\ ttReturned = {}
  /\ flushSent = {}

\* ------------------------------------------------------------------------
\* Specifications
\* ------------------------------------------------------------------------
\* IndexCoord with any set of workers; the other components at rest
Init ==
  /\ InitIndex /\ InitMeta /\ InitCluster /\ InitDd /\ InitAlloc /\ InitSegIdx
  /\ InitLife /\ InitLock /\ InitRec /\ InitTick /\ InitStore /\ InitTt

\* DataCoord with an empty meta; the other components at rest
InitData ==
  /\ InitIndexWith({}) /\ InitMeta /\ InitCluster /\ InitDd /\ InitAlloc
  /\ InitSegIdx /\ InitLife /\ InitLock /\ InitRec /\ InitTick /\ InitStore
  /\ InitTt

SchedulerNext ==
  \/ AssignDequeue
  \/ AssignSkipFinished
  \/ AssignPeek
  \/ AssignRequeue
  \/ AssignRPCFail
  \/ AssignRPCOk
  \/ \E n \in Nodes, b \in BuildIDs, st \in {"Finished", "Failed"} :
        NodeReport(n, b, st)
  \/ \E n \in Nodes : NodeCrash(n)
  \/ WatchNodeDel
  \/ WatchNodeSend
  \/ WatchMetaPut
  \/ \E ix \in IndexIDs : DropIndex(ix)

BuildIndexCall(c) ==
  \/ \E r \in Reqs : BuildIndexHasSame(c, r)
  \/ \E r \in Reqs : BuildIndexEnqueue(c, r)
  \/ BuildIndexAdd(c)
  \/ BuildIndexFail(c)
  \/ BuildIndexSend(c)

\* concurrent BuildIndex callers
NextIndex == SchedulerNext \/ \E c \in Callers : BuildIndexCall(c)
SpecIndex == Init /\ [][NextIndex]_vars

\* one caller, whose BuildIndex calls follow one another
NextIndexSeq == SchedulerNext \/ BuildIndexCall(1)
SpecIndexSeq == Init /\ [][NextIndexSeq]_vars

NextMeta ==
  \/ \E ok \in BOOLEAN : AddSegment(ok)
  \/ \E id \in SegIDs, n \in 0..MaxRows, ok \in BOOLEAN : SetRowCount(id, n, ok)
  \/ \E id \in SegIDs, ok \in BOOLEAN : DropSegment(id, ok)
  \/ \E id \in SegIDs, ok \in BOOLEAN : SealSegment(id, ok)
  \/ \E id \in SegIDs, ok \in BOOLEAN : GetFlushableSegments(id, ok)
  \/ \E id \in SegIDs, flushed \in BOOLEAN, cp \in CheckPoints,
        start \in StartPositions, ok \in BOOLEAN :
        SaveBinlogPaths(id, flushed, cp, start, ok)
  \/ FlushRecv
  \/ \E rpcOk \in BOOLEAN, ok \in BOOLEAN : FlushCompleted(rpcOk, ok)
  \/ RestartMeta
SpecMeta == InitData /\ [][NextMeta]_vars

\* The flush loop is a goroutine that runs whenever it can, and a
\* SegmentFlushCompleted call that is attempted again and again succeeds at
\* some attempt.
SpecMetaFair ==
  /\ SpecMeta
  /\ WF_vars(FlushRecv)
  /\ WF_vars(\E rpcOk \in BOOLEAN, ok \in BOOLEAN : FlushCompleted(rpcOk, ok))
  /\ SF_vars(FlushCompleted(TRUE, TRUE))

\* DataCoord with the RootCoord side of the flush-done handshake; the data
\* nodes report no start positions
NextFlush ==
  \/ \E ok \in BOOLEAN : AddSegment(ok)
  \/ \E id \in SegIDs, n \in 0..MaxRows, ok \in BOOLEAN : SetRowCount(id, n, ok)
  \/ \E id \in SegIDs, ok \in BOOLEAN : DropSegment(id, ok)
  \/ \E id \in SegIDs, ok \in BOOLEAN : SealSegment(id, ok)
  \/ \E id \in SegIDs, ok \in BOOLEAN : GetFlushableSegments(id, ok)
  \/ \E id \in SegIDs, flushed \in BOOLEAN, cp \in CheckPoints, ok \in BOOLEAN :
        SaveBinlogPaths(id, flushed, cp, NoStart, ok)
  \/ FlushRecv
  \/ \E rpcOk \in BOOLEAN, svcOk \in [Fields -> BOOLEAN],
        addOk \in [Fields -> BOOLEAN], ok \in BOOLEAN :
        FlushCompletedRc(rpcOk, svcOk, addOk, ok)
  \/ RestartMeta
SpecFlush == InitData /\ [][NextFlush]_vars

NextCluster ==
  \/ \E n \in DataNodes : SessionAdd(n)
  \/ \E n \in DataNodes : SessionDel(n)
  \/ \E ch \in Channels : WatchChannel(ch)
  \/ \E posOk \in BOOLEAN : HandleRegister(posOk)
  \/ \E posOk \in BOOLEAN : HandleUnRegister(posOk)
  \/ \E posOk \in BOOLEAN : HandleWatchChannel(posOk)
  \/ \E n \in DataNodes, rpcOk \in BOOLEAN, ok \in BOOLEAN :
        HandleWatchEvent(n, rpcOk, ok)
  \/ \E n \in DataNodes : HandleEventNoClient(n)
  \/ RestartCluster
SpecCluster == InitData /\ [][NextCluster]_vars

\* the cluster event loop and the event loop of each node are scheduled, and
\* a step that may succeed infinitely often succeeds eventually; sessions,
\* Watch calls and restarts are not forced to happen
SpecClusterFair ==
  /\ SpecCluster
  /\ WF_vars(\E posOk \in BOOLEAN :
               HandleRegister(posOk) \/ HandleUnRegister(posOk)
                 \/ HandleWatchChannel(posOk))
  /\ SF_vars(HandleRegister(TRUE) \/ HandleUnRegister(TRUE)
               \/ HandleWatchChannel(TRUE))
  /\ \A n \in DataNodes :
       /\ WF_vars(HandleEventNoClient(n)
                    \/ \E rpcOk \in BOOLEAN, ok \in BOOLEAN :
                          HandleWatchEvent(n, rpcOk, ok))
       /\ SF_vars(HandleWatchEvent(n, TRUE, TRUE))

NextDd ==
  \/ \E type \in DdTypes, c \in CollNames, p \in {0} \cup PartNames :
        DdCommit(type, c, p)
  \/ \E ok \in BOOLEAN : DdPublish(ok)
  \/ \E kvOk \in BOOLEAN : DdSetFlag(kvOk)
  \/ Crash
  \/ RcStart
  \/ \E ok \in BOOLEAN : RcWatchProxy(ok)
  \/ \E kvOk \in BOOLEAN : RcReSendLoad(kvOk)
  \/ RcResolve
  \/ \E ok \in BOOLEAN : RcPublish(ok)
  \/ \E kvOk \in BOOLEAN : RcSetFlag(kvOk)
SpecDd == InitData /\ [][NextDd]_vars

\* the ID allocator over restarts of a RootCoord that has no DDL to replay
NextAlloc ==
  \/ RcStart
  \/ \E ok \in BOOLEAN : RcWatchProxy(ok)
  \/ \E kvOk \in BOOLEAN : RcReSendLoad(kvOk)
  \/ \E kvOk \in BOOLEAN : RcRestartInit(kvOk)
  \/ \E count \in 1..MaxCount, kvOk \in BOOLEAN : AllocID(count, kvOk)
  \/ \E kvOk \in BOOLEAN : IDAllocatorUpdate(kvOk)
SpecAlloc == InitData /\ [][NextAlloc]_vars

\* IndexCoord with its shutdown: Stop cancels loopCtx, the assignment loop
\* and the node-watch loop return at their select
NextIndexStop == NextIndexSeq \/ IcStop \/ AssignExit \/ WatchNodeExit
SpecIndexStop == Init /\ [][NextIndexStop]_vars

\* IndexCoord with restarts: while Init has not finished only the RPCs that
\* need the meta table alone are served (the scheduler does not exist yet)
NextIndexInit ==
  \/ icStateCode = "Healthy" /\ NextIndexSeq
  \/ icStateCode # "Healthy" /\ \E r \in Reqs : BuildIndexHasSame(1, r)
  \/ icStateCode # "Healthy" /\ \E ix \in IndexIDs : DropIndex(ix)
  \/ IcRestart
  \/ IcInitDone
SpecIndexInit == Init /\ [][NextIndexInit]_vars

\* the goroutines of DataCoord that take the meta lock or the Cluster mutex
NextLock ==
  \/ \E g \in MetaCallers, op \in MetaOps : MetaLock(g, op)
  \/ \E g \in MetaCallers : MetaSave(g)
  \/ \E g \in MetaCallers : MetaReturn(g)
  \/ \E op \in ClusterOps : ClusterLock(op)
  \/ ClusterTxnSave
  \/ ClusterUnlock
  \/ ClusterWatch
  \/ EventRPC
  \/ EventLock
  \/ EventSaveNode
  \/ EventDone
SpecLock == InitData /\ [][NextLock]_vars

\* the assignment loop with one caller and workers that register and stay:
\* no session is lost and no build is reported, so no dequeued build-id is
\* Finished
NextIndexJoin ==
  \/ BuildIndexCall(1)
  \/ AssignDequeue
  \/ AssignPeek
  \/ AssignRequeue
  \/ AssignRPCFail
  \/ AssignRPCOk
  \/ \E n \in Nodes : NodeJoin(n)
SpecIndexJoin == Init /\ [][NextIndexJoin]_vars

\* IndexCoord started on the rows of an earlier run: DropIndex and the
\* recycler
NextRecycle ==
  \/ \E m \in [BuildIDs -> LoadedRows] :
       \E f \in [BuildIDs -> SUBSET Versions] : ReloadMeta(m, f)
  \/ \E ix \in IndexIDs : DropIndexReturn(ix)
  \/ \E b \in BuildIDs : \E left \in SUBSET Versions : RecycleMarkDeleted(b, left)
  \/ \E b \in BuildIDs : \E failed \in SUBSET Versions, ok \in BOOLEAN :
       RecycleOldVersions(b, failed, ok)
SpecRecycle == InitData /\ [][NextRecycle]_vars

\* the assignment loop, the workers that write index files, and the recycler
NextBuildRecycle ==
  \/ BuildIndexCall(1)
  \/ AssignDequeue
  \/ AssignSkipFinished
  \/ AssignPeek
  \/ AssignRequeue
  \/ AssignCreateIndex
  \/ \E n \in Nodes, b \in BuildIDs : NodeSaveIndexFiles(n, b)
  \/ \E n \in Nodes, b \in BuildIDs : NodeFinish(n, b)
  \/ \E n \in Nodes : NodeCrash(n)
  \/ WatchNodeDel
  \/ WatchNodeSend
  \/ WatchMetaPut
  \/ \E b \in BuildIDs : \E failed \in SUBSET Versions, ok \in BOOLEAN :
       RecycleOldVersions(b, failed, ok)
SpecBuildRecycle == Init /\ [][NextBuildRecycle]_vars

\* the time-tick loop of DataCoord with the Cluster that delivers its Flush
\* requests
NextTtFlush ==
  \/ \E ok \in BOOLEAN : AddSegment(ok)
  \/ \E id \in SegIDs, ok \in BOOLEAN : SealSegment(id, ok)
  \/ \E id \in SegIDs, ok \in BOOLEAN : StartDataNodeTtLoop(id, ok)
  \/ \E n \in DataNodes : SessionAdd(n)
  \/ \E n \in DataNodes : SessionDel(n)
  \/ \E ch \in Channels : WatchChannel(ch)
  \/ \E posOk \in BOOLEAN : HandleRegister(posOk)
  \/ \E posOk \in BOOLEAN : HandleUnRegister(posOk)
  \/ \E posOk \in BOOLEAN : HandleWatchChannel(posOk)
  \/ \E n \in DataNodes, rpcOk \in BOOLEAN, ok \in BOOLEAN :
        HandleWatchEvent(n, rpcOk, ok)
  \/ \E n \in DataNodes : HandleEventNoClient(n)
  \/ HandleFlush
  \/ \E n \in DataNodes, rpcOk \in BOOLEAN : HandleFlushEvent(n, rpcOk)
SpecTtFlush == InitData /\ [][NextTtFlush]_vars

\* the tsLoops of RootCoord and IndexCoord, and the shutdown of each
NextTick ==
  \/ \E tsoOk \in BOOLEAN, idOk \in BOOLEAN : RcTsTick(tsoOk, idOk)
  \/ CoreStop
  \/ RcTsExit
  \/ \E ok \in BOOLEAN : IcTsTick(ok)
  \/ IcStop
  \/ IcTsExit
SpecTick == InitData /\ [][NextTick]_vars

\* the segment store of meta under its operations
NextStore ==
  \/ \E info \in SegInfos, ok \in BOOLEAN : MetaAddSegment(info, ok)
  \/ \E id \in StoreIDs, ok \in BOOLEAN : MetaDropSegment(id, ok)
  \/ \E id \in StoreIDs, st \in SegStates, ok \in BOOLEAN : MetaSetState(id, st, ok)
  \/ MetaGetUnFlushedSegments
  \/ MetaGetFlushingSegments
SpecStore == InitData /\ [][NextStore]_vars

\* the coordinators' session and shutdown handling
NextLife ==
  \/ DcStart
  \/ ActiveChClose
  \/ \E l \in DcLoops : StreamSelect(l)
  \/ \E l \in DcLoops, pack \in BOOLEAN : StreamConsume(l, pack)
  \/ \E l \in DcLoops : LoopDone(l)
  \/ StartActiveCheck
  \/ \E who \in Stoppers : Stop(who)
  \/ \E who \in Stoppers : StopServerLoop(who)
  \/ ActiveReturn
  \/ RcSessClose
  \/ SessionLoop
  \/ RcExit
  \/ IcSessClose
  \/ IcStop
SpecLife == InitData /\ [][NextLife]_vars

\* every goroutine of the coordinators is scheduled; the loss of a lease and
\* a Stop by the owner of a server are not forced to happen
SpecLifeFair ==
  /\ SpecLife
  /\ WF_vars(DcStart)
  /\ \A l \in DcLoops :
       /\ WF_vars(StreamSelect(l))
       /\ WF_vars(\E pack \in BOOLEAN : StreamConsume(l, pack))
       /\ WF_vars(LoopDone(l))
  /\ WF_vars(StartActiveCheck)
  /\ WF_vars(Stop("active"))
  /\ \A who \in Stoppers : WF_vars(StopServerLoop(who))
  /\ WF_vars(ActiveReturn)
  /\ WF_vars(SessionLoop)
  /\ WF_vars(RcExit)

\* ------------------------------------------------------------------------
\* IndexCoord: properties
\* ------------------------------------------------------------------------
\* C1: in every reachable state there is at most one non-deleted build-task
\* row per request fingerprint, so that concurrent BuildIndex calls with
\* identical parameters create exactly one row.
C1_OneRowPerFingerprint == \A r \in Reqs : Cardinality(SameReq(r)) <= 1

\* C2: sequential idempotence of BuildIndex. While a non-deleted row b of
\* request r exists and no call is in progress, a BuildIndex(r) call does not
\* enqueue a new IndexAddTask, and it returns Success with build-id b leaving
\* the meta table, the id allocator and assignChan as they are.
C2_SequentialIdempotence ==
  [][\A r \in Reqs : \A b \in SameReq(r) :
        (\A c \in Callers : pc[c] = "idle") =>
          /\ \A c \in Callers : ~(pc'[c] = "enqueued" /\ callReq'[c] = r)
          /\ (ret' # ret /\ ret'.req = r) =>
                /\ ret' = Success(b, r)
                /\ indexMeta' = indexMeta
                /\ nextBuildID' = nextBuildID
                /\ assignChan' = assignChan]_vars

\* a later BuildIndex(r) has returned the build-id b of the first call after
\* another build-id was allocated in between
C2_Witness ==
  \E b \in BuildIDs :
     /\ b \in SameReq(indexMeta[b].req)
     /\ ret = Success(b, indexMeta[b].req)
     /\ nextBuildID > b + 1
     /\ \A c \in Callers : pc[c] = "idle"

C9_RPCFailureRequeues ==
  [][AssignRPCFail =>
        /\ indexMeta'[Head(aBatch)].state = indexMeta[Head(aBatch)].state
        /\ Head(aBatch) \in OnAssignChan']_vars

\* C10: a Put event of the meta watch whose row is Failed puts the build-id
\* back on assignChan; one whose row is Finished removes the build-id from
\* the node task sets and sends nothing on assignChan.
C10_WatchPutRequeuesFailed ==
  [][(watchChan # <<>> /\ watchChan' = Tail(watchChan)) =>
        /\ Head(watchChan).state = "Failed" =>
              Head(watchChan).id \in OnAssignChan'
        /\ Head(watchChan).state = "Finished" =>
              /\ \A n \in Nodes : Head(watchChan).id \notin nodeTasks'[n]
              /\ assignChan' = assignChan]_vars

\* ------------------------------------------------------------------------
\* DataCoord meta: properties
\* ------------------------------------------------------------------------
\* C3: over the meta operations (sealing, marking Flushing, SaveBinlogPaths
\* with or without flushed, the completion step of the flush loop) the state
\* of a stored segment never decreases in the order Growing < Sealed <
\* Flushing < Flushed.
C3_StateMonotone ==
  [][RestartMeta \/
     \A id \in SegIDs :
        (segments[id].exists /\ segments'[id].exists) =>
           Rank(segments'[id].state) >= Rank(segments[id].state)]_vars

\* ------------------------------------------------------------------------
\* DataCoord Cluster: properties
\* ------------------------------------------------------------------------
\* C4: every (data node, channel) binding whose watch state is Complete has
\* had a WatchDmChannels request for the channel acknowledged by the node
\* since the binding was created; a failed request never makes it Complete.
C4_CompleteImpliesAcked ==
  \A n \in DataNodes, ch \in Channels :
     (clusterNodes[n].present /\ clusterNodes[n].chans[ch] = "Complete")
        => <<n, ch>> \in acked

\* ------------------------------------------------------------------------
\* RootCoord: properties
\* ------------------------------------------------------------------------
\* C5: when a restarted RootCoord finishes Start after a crash that left a
\* DdOperation with DdMsgSent = false, and no KV, proxy-watch or publish
\* failure occurred during Start, then DdMsgSent is true or the recorded DDL
\* has been re-published since the restart. The outcomes "nothing",
\* "resolveErr" and "sent" of the replay are those without such a failure.
C5_ReplayedAfterCrash ==
  [][(rcPc # "started" /\ rcPc' = "started"
        /\ replay' \in {"nothing", "resolveErr", "sent"})
       => (ddMsgSent' # "false" \/ pubDone')]_vars

\* C6: DdMsgSent becomes true only in a step taken after the recorded
\* DdOperation was published with success, and a replay step in which the
\* resolution of the collection or the publish fails leaves it false.
C6_FlagOnlyAfterPublish ==
  /\ [][(ddMsgSent # "true" /\ ddMsgSent' = "true") => pubDone]_vars
  /\ [][(replay' \in {"resolveErr", "publishErr"} /\ replay = "none")
          => (ddMsgSent = "false" /\ ddMsgSent' = "false")]_vars

\* a replay published the recorded DdOperation and then wrote the flag
C6_Witness ==
  /\ replay = "sent" /\ rcPc = "started" /\ tPc = "idle"
  /\ pubDone /\ ddMsgSent = "true"

\* the identifiers of the last successful AllocID
AllocRange(r) == r.id..(r.id + r.count - 1)

\* C7: every successful AllocID returns a range [first, first+count) whose
\* values are above every value issued before by the same process and that
\* contains no value ever issued before, also by a process before a restart;
\* every issued value is below the persisted high-water mark.
C7_IdsNeverReused ==
  /\ [][\A count \in 1..MaxCount, kvOk \in BOOLEAN :
          (AllocID(count, kvOk) /\ allocRet'.ok)
            => /\ allocRet'.count = count
               /\ \A v \in issuedProc : allocRet'.id > v
               /\ AllocRange(allocRet') \cap issued = {}]_vars
  /\ [](\A v \in issued : v < gidHigh)

\* a process started after a restart has issued identifiers, after the
\* process before it had issued some
C7_Witness ==
  /\ allocRet.ok
  /\ issuedProc # {}
  /\ issued \ issuedProc # {}

\* ------------------------------------------------------------------------
\* DataCoord meta: properties of SetRowCount and SaveBinlogAndCheckPoints
\* ------------------------------------------------------------------------
\* C14: the row count of a stored segment never decreases in a step of the
\* running DataCoord (SetRowCount, SaveBinlogAndCheckPoints and the others).
C14_NumRowsMonotone ==
  [][RestartMeta
     \/ \A id \in SegIDs :
          (segments[id].exists /\ segments'[id].exists)
            => segments'[id].numRows >= segments[id].numRows]_vars

\* C15: a SaveBinlogAndCheckPoints call that supplies a non-empty start
\* position for a stored segment whose start position is empty records it,
\* and a non-empty start position of a segment is never changed.
C15_StartPositionOnce ==
  /\ [][\A id \in SegIDs, flushed \in BOOLEAN, cp \in CheckPoints,
          start \in StartPositions, ok \in BOOLEAN :
          (/\ SaveBinlogPaths(id, flushed, cp, start, ok)
           /\ start.present /\ start.msgID # 0
           /\ segments[id].startPos = 0)
            => segments'[id].startPos = start.msgID]_vars
  /\ [][RestartMeta
        \/ \A id \in SegIDs :
             (segments[id].exists /\ segments'[id].exists
              /\ segments[id].startPos # 0)
               => segments'[id].startPos = segments[id].startPos]_vars

\* C16: SaveBinlogAndCheckPoints leaves dml_position and num_rows as they
\* are when the checkpoint is not newer than the segment's dml_position, and
\* sets both from the checkpoint when it is newer (or the position is nil);
\* the dml_position timestamp of a stored segment never decreases.
C16_DmlPositionAdvances ==
  /\ [][\A id \in SegIDs, flushed \in BOOLEAN, cp \in CheckPoints,
          start \in StartPositions, ok \in BOOLEAN :
          (SaveBinlogPaths(id, flushed, cp, start, ok) /\ cp.present)
            => IF segments[id].dmlTs # 0 /\ cp.ts <= segments[id].dmlTs
               THEN /\ segments'[id].dmlTs = segments[id].dmlTs
                    /\ segments'[id].numRows = segments[id].numRows
               ELSE /\ segments'[id].dmlTs = cp.ts
                    /\ segments'[id].numRows = cp.rows]_vars
  /\ [][RestartMeta
        \/ \A id \in SegIDs :
             (segments[id].exists /\ segments'[id].exists)
               => segments'[id].dmlTs >= segments[id].dmlTs]_vars

\* a checkpoint with the newest timestamp was applied to a segment and saved
C16_Witness ==
  \E id \in SegIDs :
    /\ segments[id].exists /\ segments[id].dmlTs = MaxTs
    /\ kvSegs[id].exists /\ kvSegs[id].dmlTs = MaxTs
    /\ id \in kvBinlogs

\* C17: a SaveBinlogAndCheckPoints call whose KV transaction succeeds makes
\* the binlog paths and the updated segment record (rows, position, state)
\* visible in memory and in KV; a call whose transaction fails leaves the
\* segment records, in memory and in KV, as they were.
C17_SaveAtomic ==
  [][\A id \in SegIDs, flushed \in BOOLEAN, cp \in CheckPoints,
       start \in StartPositions, ok \in BOOLEAN :
       SaveBinlogPaths(id, flushed, cp, start, ok)
         => IF ok
            THEN /\ segments' = SaveInMemory(id, flushed, cp, start)
                 /\ kvSegs'[id] = segments'[id]
                 /\ id \in kvBinlogs'
            ELSE /\ segments' = segments
                 /\ kvSegs' = kvSegs
                 /\ kvBinlogs' = kvBinlogs]_vars

\* ------------------------------------------------------------------------
\* Flush-done handshake: properties
\* ------------------------------------------------------------------------
\* C12: a segment becomes Flushed only in the step of the flush loop in which
\* RootCoord acknowledged SegmentFlushCompleted, and every segment whose id
\* was taken from the flush-done channel eventually is Flushed (or dropped).
C12_FlushHandshake ==
  /\ [][\A id \in SegIDs :
          (segments[id].state # "Flushed" /\ segments'[id].state = "Flushed")
            => (RestartMeta
                \/ \E ok \in BOOLEAN : FlushCompleted(TRUE, ok))]_vars
  /\ \A id \in SegIDs :
       (fPc = "rpc" /\ fSeg = id)
         ~> (~segments[id].exists \/ segments[id].state = "Flushed")

C11_ReassignedAfterWorkerLoss ==
  \A b \in BuildIDs :
    (/\ indexMeta[b].exists /\ ~indexMeta[b].markDeleted
     /\ indexMeta[b].state = "InProgress"
     /\ indexMeta[b].nodeID \notin DOMAIN nodeClients)
      => \/ b \in OnAssignChan
         \/ b \in SeqToSet(aBatch)
         \/ b \in SeqToSet(wTasks)
         \/ \E n \in Nodes : alive[n] /\ b \in nodeJob[n]

\* ------------------------------------------------------------------------
\* Coordinators: termination after the loss of the session
\* ------------------------------------------------------------------------
\* C18: a coordinator whose session close-channel fired terminates: all five
\* server loops of DataCoord return and every Stop that waits for them
\* returns, the RootCoord process exits, and IndexCoord's loops are
\* cancelled.
C18_TerminatesOnSessionLoss ==
  /\ (activeCh = "closed") ~> (/\ \A l \in DcLoops : dcLoop[l] = "done"
                               /\ \A who \in Stoppers : dcStop[who] # "wait")
  /\ (rcSess = "closed") ~> (rcSess = "exited")
  /\ (icSess = "closed") ~> icCancelled

\* ------------------------------------------------------------------------
\* IndexCoord: loops and cancellation
\* ------------------------------------------------------------------------
\* C19: after loopCtx is cancelled no loop is held at a blocking point that
\* cancellation does not release: the assignment loop, the only receiver of
\* assignChan, is not blocked in its send on the full channel, and the
\* node-watch loop is not blocked in its send on the full channel after the
\* assignment loop has returned.
C19_LoopsObserveCancel ==
  icCancelled =>
    /\ aPc = "requeue" => Len(assignChan) < AssignChanCap
    /\ (wPc = "send" /\ aPc = "exited") => Len(assignChan) < AssignChanCap

\* ------------------------------------------------------------------------
\* IndexCoord: RPCs and the service state
\* ------------------------------------------------------------------------
\* C20: while the state of IndexCoord is not Healthy an RPC has no effect on
\* the meta table, the allocator or the assignment channel, and a response
\* that is returned is UnexpectedError.
C20_RPCChecksState ==
  [][(icStateCode # "Healthy" /\ icStateCode' # "Healthy")
        => /\ UNCHANGED <<indexMeta, nextBuildID>>
           /\ assignChan' = assignChan \/ assignChan' = <<>>
           /\ ret' # ret => ret'.status = "UnexpectedError"]_vars

\* ------------------------------------------------------------------------
\* IndexCoord: terminal states of a build task
\* ------------------------------------------------------------------------
\* C21: a build task whose state is Finished or Failed keeps its state and
\* its version: nothing bumps the version or changes the state of a
\* terminal row (DropIndex only sets mark-deleted).
C21_TerminalStateKept ==
  [][\A b \in BuildIDs :
       (indexMeta[b].exists /\ indexMeta[b].state \in {"Finished", "Failed"}
          /\ indexMeta'[b].exists)
         => /\ indexMeta'[b].state = indexMeta[b].state
            /\ indexMeta'[b].version = indexMeta[b].version]_vars

\* ------------------------------------------------------------------------
\* DataCoord Cluster: buffered channels
\* ------------------------------------------------------------------------
\* C22: every channel a node holds in state Uncomplete, in particular a
\* channel drained from the buffer when the node registered, eventually
\* leaves that state: its watch-state becomes Complete, or the node is
\* removed.
C22_WatchStatesComplete ==
  \A n \in DataNodes, ch \in Channels :
    (clusterNodes[n].chans[ch] = "Uncomplete")
      ~> (clusterNodes[n].chans[ch] # "Uncomplete")

\* ------------------------------------------------------------------------
\* DataCoord: locks and I/O
\* ------------------------------------------------------------------------
\* C23: no goroutine that is executing a KV call or a worker RPC holds the
\* meta lock or the Cluster mutex.
C23_NoLockAcrossIO ==
  \A g \in Goroutines :
    gPc[g] \in InIO => \A l \in DOMAIN mu : mu[l] # g

\* ------------------------------------------------------------------------
\* IndexCoord: order of assignment
\* ------------------------------------------------------------------------
\* C24: build-id 1 is sent on the assignment channel before build-id 2 (one
\* caller); when the first CreateIndex request for build-id 2 is issued,
\* one for build-id 1 has been issued (no worker is lost, so the task sets
\* hold every build-id for which a request was issued).
C24_AssignmentFIFO ==
  [][(/\ indexMeta[1].exists
      /\ \A n \in Nodes : 2 \notin nodeTasks[n]
      /\ \E n \in Nodes : 2 \in nodeTasks'[n])
        => \E n \in Nodes : 1 \in nodeTasks[n]]_vars

C27_RowKeptWhileFilesExist ==
  \A b \in BuildIDs : indexFiles[b] # {} => indexMeta[b].exists

\* ------------------------------------------------------------------------
\* DataCoord meta: the segment store
\* ------------------------------------------------------------------------
\* C28: after AddSegment(s), GetSegment(s.ID) is s and s.ID is listed for
\* its own collection and its own (collection, partition) and for no other;
\* after DropSegment(id) the id is listed nowhere; every operation leaves the
\* records of the segments it does not name as they were.
C28_SegmentStoreIsMap ==
  [][/\ mOp'.op = "AddSegment" =>
          /\ GetSegment(mSegs', mOp'.id) = mOp'.seg
          /\ \A c \in MetaColls :
               mOp'.id \in GetSegmentsOfCollection(mSegs', c) <=> c = mOp'.seg.coll
          /\ \A c \in MetaColls, p \in MetaParts :
               mOp'.id \in GetSegmentsOfPartition(mSegs', c, p)
                 <=> (c = mOp'.seg.coll /\ p = mOp'.seg.part)
     /\ mOp'.op = "DropSegment" =>
          /\ GetSegment(mSegs', mOp'.id) = NoInfo
          /\ \A c \in MetaColls : mOp'.id \notin GetSegmentsOfCollection(mSegs', c)
          /\ \A c \in MetaColls, p \in MetaParts :
               mOp'.id \notin GetSegmentsOfPartition(mSegs', c, p)
     /\ \A id \in StoreIDs \ {mOp'.id} :
          /\ GetSegment(mSegs', id) = GetSegment(mSegs, id)
          /\ \A c \in MetaColls, p \in MetaParts :
               /\ id \in GetSegmentsOfCollection(mSegs', c)
                    <=> id \in GetSegmentsOfCollection(mSegs, c)
               /\ id \in GetSegmentsOfPartition(mSegs', c, p)
                    <=> id \in GetSegmentsOfPartition(mSegs, c, p)]_vars

\* two segments of different partitions were added and one of them was
\* dropped
C28_Witness ==
  /\ mOp.op = "DropSegment"
  /\ mNextID > NumStoreSegs
  /\ GetSegment(mSegs, mOp.id) = NoInfo
  /\ \E id \in StoreIDs, c \in MetaColls, p \in MetaParts :
       /\ id # mOp.id
       /\ id \in GetSegmentsOfPartition(mSegs, c, p)

\* C29: GetUnFlushedSegments returns the stored segments whose state is
\* neither Flushing nor Flushed, GetFlushingSegments those whose state is
\* Flushing; no segment is in both results and a Flushed one is in neither.
C29_FlushQueriesPartition ==
  LET stored == {mSegs[id] : id \in {i \in StoreIDs : mSegs[i] # NoInfo}}
  IN /\ mOp.op = "GetUnFlushedSegments" =>
          \A info \in SegInfos :
             info \in mOp.res <=>
               (info \in stored /\ info.state \notin {"Flushing", "Flushed"})
     /\ mOp.op = "GetFlushingSegments" =>
          \A info \in SegInfos :
             info \in mOp.res <=> (info \in stored /\ info.state = "Flushing")
     /\ GetUnFlushedSegments(mSegs) \cap GetFlushingSegments(mSegs) = {}
     /\ \A info \in stored :
          info.state = "Flushed" =>
            /\ info \notin GetUnFlushedSegments(mSegs)
            /\ info \notin GetFlushingSegments(mSegs)

\* GetUnFlushedSegments has returned one segment while a Flushing or Flushed
\* one is stored as well
C29_Witness ==
  /\ mOp.op = "GetUnFlushedSegments"
  /\ Cardinality(mOp.res) = 1
  /\ \E id \in StoreIDs : mSegs[id] # NoInfo /\ mSegs[id].state \in {"Flushing", "Flushed"}

\* ------------------------------------------------------------------------
\* The periodic update of the allocators
\* ------------------------------------------------------------------------
\* C30: every tick handled by RootCoord's tsLoop calls the ID allocator's
\* update, and IndexCoord's tsLoop returns only when its context is
\* cancelled.
C30_UpdateOnEveryTick ==
  [][/\ rcTicks' = rcTicks + 1 => idUpdates' = idUpdates + 1
     /\ (icTsPc = "select" /\ icTsPc' = "returned") => icCancelled]_vars

\* ------------------------------------------------------------------------
\* IndexCoord: no build task is lost
\* ------------------------------------------------------------------------
\* C31: every build task that is not Finished, not Failed and not marked
\* deleted is on the assignment channel, in the hands of the assignment loop,
\* of the node-watch loop or of the BuildIndex call that is about to send
\* it, or in the task set of a registered worker.
C31_NoTaskLost ==
  \A b \in BuildIDs :
    (/\ indexMeta[b].exists /\ ~indexMeta[b].markDeleted
     /\ indexMeta[b].state \notin {"Finished", "Failed"})
      => \/ b \in OnAssignChan
         \/ b \in SeqToSet(aBatch)
         \/ b \in SeqToSet(wTasks)
         \/ \E c \in Callers : pc[c] = "added" /\ callID[c] = b
         \/ \E n \in DOMAIN nodeClients : b \in nodeTasks[n]

\* ------------------------------------------------------------------------
\* IndexCoord: the assignment loop and its own channel
\* ------------------------------------------------------------------------
\* C32: the assignment loop is never at its send on assignChan (line 651)
\* while the channel is full: the loop is the only receiver, so there it can
\* take no step.
C32_AssignLoopNotBlocked ==
  ~(aPc = "requeue" /\ Len(assignChan) >= AssignChanCap)

\* ------------------------------------------------------------------------
\* IndexCoord: the version of a build task
\* ------------------------------------------------------------------------
\* C33: an attempt of the assignment loop that finds no worker (no
\* CreateIndex request is issued) leaves the version persisted in the task's
\* meta as it was.
C33_VersionOnlyWithRequest ==
  [][(aPc = "iter" /\ aPc' = "requeue")
       => indexMeta'[Head(aBatch)].version = indexMeta[Head(aBatch)].version]_vars

\* C34: for a build task that is not marked deleted, the index files of the
\* version a worker is building or has reported as Finished are never removed:
\* files of that version that exist before a step exist after it.
C34_BuiltFilesKept ==
  [][\A b \in BuildIDs :
       (/\ indexMeta[b].exists /\ ~indexMeta[b].markDeleted
        /\ ~indexMeta'[b].markDeleted
        /\ \/ indexMeta[b].state = "Finished"
           \/ \E n \in Nodes : b \in nodeJob[n]
        /\ jobVersion[b] \in indexFiles[b])
         => jobVersion[b] \in indexFiles'[b]]_vars

\* the recycler has removed the files of an older version of a Finished task
\* and the files of the version that was built are there
C34_Witness ==
  \E b \in BuildIDs :
    /\ indexMeta[b].exists /\ ~indexMeta[b].markDeleted
    /\ indexMeta[b].state = "Finished"
    /\ indexMeta[b].version >= 2
    /\ b \in recycled
    /\ indexFiles[b] = {jobVersion[b]}

\* C35: when the persisted segment records agree with the in-memory ones, they
\* agree again after a SaveBinlogAndCheckPoints, AddSegment, SetRowCount,
\* SetState or DropSegment whose KV write succeeds: a reload from KV would
\* give the in-memory segments.
C35_ReloadEqualsMemory ==
  [][segments = kvSegs
       => \/ segments' = kvSegs'
          \/ ~ \/ AddSegment(TRUE)
               \/ \E id \in SegIDs, n \in 0..MaxRows : SetRowCount(id, n, TRUE)
               \/ \E id \in SegIDs : DropSegment(id, TRUE)
               \/ \E id \in SegIDs : SealSegment(id, TRUE)
               \/ \E id \in SegIDs : GetFlushableSegments(id, TRUE)
               \/ \E id \in SegIDs, flushed \in BOOLEAN, cp \in CheckPoints,
                     start \in StartPositions :
                     SaveBinlogPaths(id, flushed, cp, start, TRUE)]_vars

\* C36: an AddSegment, SetRowCount, SetState or DropSegment whose KV write
\* fails leaves the in-memory segments as they were.
C36_FailedWriteKeepsMemory ==
  [][\/ segments' = segments
     \/ ~ \/ AddSegment(FALSE)
          \/ \E id \in SegIDs, n \in 0..MaxRows : SetRowCount(id, n, FALSE)
          \/ \E id \in SegIDs : DropSegment(id, FALSE)
          \/ \E id \in SegIDs : SealSegment(id, FALSE)
          \/ \E id \in SegIDs : GetFlushableSegments(id, FALSE)]_vars

\* C37: no ingest channel is bound in two places: the channel lists of the
\* registered nodes and the buffer hold each channel at most once, also after
\* a restart that reloads nodes and buffer from KV.
C37_ChannelBoundOnce ==
  \A ch \in Channels :
    Cardinality({n \in GetNodes(clusterNodes) :
                   clusterNodes[n].chans[ch] # "None"})
      + (IF ch \in chanBuffer THEN 1 ELSE 0) <= 1

\* C39: an attempt of the flush loop that leaves the segment Flushing (the
\* SegmentFlushCompleted call or the SetState to Flushed failed) is retried:
\* when the loop returns to its select, the segment id is on the flush channel
\* again.
C39_FailedFlushRetried ==
  [][(/\ fPc = "rpc" /\ fPc' = "idle"
      /\ segments'[fSeg].exists /\ segments'[fSeg].state = "Flushing")
       => fSeg \in SeqToSet(flushCh')]_vars

\* C40: when Core.Start has returned (it returns nil whenever checkInit
\* passed, part_001:1107), the state code is Healthy.
C40_StartedIsHealthy ==
  rcPc = "started" => stateCode = "Healthy"

\* C38: every segment GetFlushableSegments returned to the time-tick loop has
\* had a FlushSegments request accepted by a data node, or a Flush event that
\* names it is waiting on the Cluster's event channel or on a node's.
C38_FlushDelivered ==
  \A id \in ttReturned :
     \/ id \in flushSent
     \/ id \in FlushPending(cEventCh)
     \/ \E n \in DataNodes : id \in FlushPending(dnEventCh[n])

====
